---- MODULE Spec2Model ----
(***************************************************************************)
(* Model of the credit ledger (credit_system.py), the bounded in-memory    *)
(* work queue (utils/in_memory_queue.py) and the /dream command            *)
(* (cogs/image_product_command.py).                                        *)
(*                                                                         *)
(* Asyncio tasks are interleaved at their awaits on the network: every     *)
(* action below is one run of a task between two such awaits.  The Redis   *)
(* server executes one command (or one MULTI/EXEC block) at a time.        *)
(***************************************************************************)
EXTENDS Integers, Sequences, FiniteSets, TLC

----------------------------------------------------------------------------
(* Bounds of the model *)

\* concurrent ledger clients (tasks holding their own pipeline connection)
NumProcs == 3
\* largest starting balance of a user
MaxBalance == 2
\* largest amount passed to a ledger operation
MaxAmount == 2
\* ledger calls issued in one behaviour of SpecLedger
MaxCalls == 2
\* concurrent clients of SpecLedger, which mixes all ledger operations
NumClients == 2

Procs == 1..NumProcs
Users == {"u1", "u2"}
Clients == 1..NumClients
Amounts == 1..MaxAmount

----------------------------------------------------------------------------
(* State *)

VARIABLES
    credits,     \* Redis: user -> value of key user:{id}:credits, or NoKey
    watched,     \* Redis: client -> set of credit keys (users) it WATCHes
    dirty,       \* Redis: client -> a watched key was written since WATCH
    call,        \* client -> the ledger call it is running
    initial,     \* history: user -> the balance the behaviour started with
    issued       \* history: number of ledger calls issued so far

ledgerVars == <<credits, watched, dirty, call, initial, issued>>

\* an InMemoryQueue on its own, with its callers
VARIABLES
    queue,       \* an InMemoryQueue: _queue (items), its maxlen, _closed,
                 \* _total_enqueued, _total_dequeued
    consumer,    \* the consumer loop: idle, or handling a dequeued item
    qlog         \* history: the enqueue and dequeue calls and their outcomes

queueVars == <<queue, consumer, qlog>>

\* the /dream command
VARIABLES
    image_generation_queue,  \* the cog's InMemoryQueue(max_size=50)
    interaction_cache,       \* interaction id -> CachedInteraction
    cmd,                     \* task -> the command invocation it is running
    nextId                   \* the id of the next interaction (unique)

\* the rest of the cog: the second queue, the two consumer loops with their
\* handlers, delivery and the sweep of the interaction cache
VARIABLES
    now,                     \* the clock, in seconds
    product_creation_queue,  \* the cog's InMemoryQueue(max_size=100)
    imgw,                    \* process_image_generation_queue and its handler
    prodw,                   \* process_product_creation_queue and its handler
    followup,                \* the _send_followup call in progress
    sweeper,                 \* _cleanup_interaction_cache: when it wakes up
                             \* and (history) when it last ran
    outbox,                  \* history: the messages delivered, in order
    removed,                 \* history: the cache entries deleted, by whom, when
    nested,                  \* history: locks acquired while another was held
    faults                   \* history: the requests a collaborator failed on

pipelineVars ==
    <<now, product_creation_queue, imgw, prodw, followup, sweeper, outbox,
      removed, nested, faults>>

dreamVars ==
    <<image_generation_queue, interaction_cache, cmd, nextId, pipelineVars>>

\* the claim cooldown and the /claim command
VARIABLES
    last_claim,  \* Redis: user -> seconds the key user:{id}:last_claim has
                 \* left to live, 0 when there is no such key
    since,       \* history: user -> seconds since the key was last SET,
                 \* -1 when it never was
    renewed,     \* history: user -> seconds the key had left when it was
                 \* last SET
    ticks,       \* history: number of times the clock was advanced
    claimcmd     \* task -> the /claim invocation it is running

cooldownVars == <<last_claim, since, renewed, ticks, claimcmd>>

\* a consumer loop run by discord.ext.tasks, with its producers
VARIABLES
    loop,        \* the loop task: its position and the item in its hands
    handled      \* history: the items the handler was invoked with, in order

loopVars == <<loop, handled>>

\* a task that makes its ledger calls one after the other
VARIABLES
    trace        \* history: the calls that returned, with the balances
                 \* before and after

traceVars == <<trace>>

VARIABLES
    owner,       \* asyncio.Lock -> the task that holds it, or NoTask
    run          \* task -> the lock operations its current run has still to
                 \* do, and whether the run has raised

lockVars == <<owner, run>>

vars == <<ledgerVars, queueVars, dreamVars, cooldownVars, loopVars, traceVars, lockVars>>

\* what the steps of a ledger call on a balance leave alone
outsideLedger == <<queueVars, dreamVars, cooldownVars, loopVars, traceVars, lockVars>>
\* what the operations of the queue on its own leave alone
outsideQueue == <<ledgerVars, dreamVars, cooldownVars, loopVars, traceVars, lockVars>>
\* what the /dream command leaves alone besides the ledger and its queue
outsideDream == <<queueVars, cooldownVars, loopVars, traceVars, lockVars, pipelineVars>>

\* a key holds <<n>>; GET of a key that was never written returns NoKey
NoKey == <<>>

Stored(n) == <<n>>

\* credits = int(credits) if credits else 0
IntOf(v) == IF v = NoKey THEN 0 ELSE v[1]

Balance(u) == IntOf(credits[u])

\* a call: its arguments (user, to, amount, updates), its position pc, the
\* balance it read (current), the attempt of _execute_redis_operation it is
\* at, and once pc = "done" what it returned: ret (a bool), value (an int);
\* history: cause, why it returned what it did, and failed, the number of
\* its commands that raised redis.RedisError
IdleCall ==
    [op |-> "none", user |-> "u1", to |-> "u1", amount |-> 0, updates |-> {},
     pc |-> "idle", current |-> 0, attempt |-> 0,
     ret |-> FALSE, value |-> 0, cause |-> "none", failed |-> 0]

\* one more command of call c raised redis.RedisError
Failed(c) == [c EXCEPT !.failed = @ + 1]

NewCall(o, u, t, a, start) ==
    [IdleCall EXCEPT !.op = o, !.user = u, !.to = t, !.amount = a, !.pc = start]

\* the call returns r; leaving `async with pipeline` resets it (UNWATCH)
Returned(c, r, why) ==
    [c EXCEPT !.pc = "done", !.ret = r, !.cause = why, !.current = 0, !.attempt = 0]

\* Redis flags every other client that watches one of the written keys
Touch(p, keys) ==
    [q \in Procs |-> dirty[q] \/ (q # p /\ watched[q] \cap keys # {})]

Unwatch(p) == [watched EXCEPT ![p] = {}]

InitLedger ==
    /\ initial \in [Users -> 0..MaxBalance]
    /\ credits \in [Users -> {Stored(n) : n \in 0..MaxBalance} \cup {NoKey}]
    /\ \A u \in Users : IntOf(credits[u]) = initial[u]
    /\ watched = [p \in Procs |-> {}]
    /\ dirty = [p \in Procs |-> FALSE]
    /\ call = [p \in Procs |-> IdleCall]
    /\ issued = 0

----------------------------------------------------------------------------
(* CreditSystem.deduct_credit *)

\* a task calls deduct_credit(u, a) and enters `async with pipeline`
CallDeduct(p, u, a) ==
    /\ call[p].pc = "idle"
    /\ call' = [call EXCEPT ![p] = NewCall("deduct_credit", u, u, a, "watch")]
    /\ issued' = issued + 1
    /\ UNCHANGED <<credits, watched, dirty, initial>>
    /\ UNCHANGED outsideLedger

\* await pipe.watch(key)
DeductWatch(p) ==
    /\ call[p].op = "deduct_credit"
    /\ call[p].pc = "watch"
    /\ watched' = [watched EXCEPT ![p] = {call[p].user}]
    /\ dirty' = [dirty EXCEPT ![p] = FALSE]
    /\ call' = [call EXCEPT ![p].pc = "get"]
    /\ UNCHANGED <<credits, initial, issued>>
    /\ UNCHANGED outsideLedger

\* current = await pipe.get(key); if current < amount: return False;
\* otherwise pipe.multi(); pipe.decrby(key, amount) buffer the write
DeductGet(p) ==
    /\ call[p].op = "deduct_credit"
    /\ call[p].pc = "get"
    /\ LET current == Balance(call[p].user) IN
       IF current < call[p].amount
       THEN /\ call' = [call EXCEPT ![p] = Returned(call[p], FALSE, "insufficient")]
            /\ watched' = Unwatch(p)
            /\ dirty' = [dirty EXCEPT ![p] = FALSE]
       ELSE /\ call' = [call EXCEPT ![p].pc = "exec", ![p].current = current]
            /\ UNCHANGED <<watched, dirty>>
    /\ UNCHANGED <<credits, initial, issued>>
    /\ UNCHANGED outsideLedger

\* a mutant: EXEC applies the buffered DECRBY although the key was written
DeductExecute_Unwatched(p) ==
    /\ call[p].op = "deduct_credit"
    /\ call[p].pc = "exec"
    /\ credits' = [credits EXCEPT
            ![call[p].user] = Stored(Balance(call[p].user) - call[p].amount)]
    /\ dirty' = [Touch(p, {call[p].user}) EXCEPT ![p] = FALSE]
    /\ watched' = Unwatch(p)
    /\ call' = [call EXCEPT ![p] = Returned(call[p], TRUE, "none")]
    /\ UNCHANGED <<initial, issued>>
    /\ UNCHANGED outsideLedger

\* await pipe.execute(): MULTI, DECRBY, EXEC.  EXEC is refused when the
\* watched key was written since WATCH (redis.WatchError): sleep and retry
DeductExecute(p) ==
    /\ call[p].op = "deduct_credit"
    /\ call[p].pc = "exec"
    /\ IF dirty[p]
       THEN /\ call' = [call EXCEPT ![p].pc = "watch"]
            /\ UNCHANGED credits
            /\ dirty' = [dirty EXCEPT ![p] = FALSE]
       ELSE /\ credits' = [credits EXCEPT
                 ![call[p].user] = Stored(Balance(call[p].user) - call[p].amount)]
            /\ dirty' = [Touch(p, {call[p].user}) EXCEPT ![p] = FALSE]
            /\ call' = [call EXCEPT ![p] = Returned(call[p], TRUE, "none")]
    /\ watched' = Unwatch(p)
    /\ UNCHANGED <<initial, issued>>
    /\ UNCHANGED outsideLedger

\* a Redis command of the pipeline raises redis.RedisError (not WatchError):
\* the outer `except Exception` logs it and deduct_credit returns False
DeductError(p) ==
    /\ call[p].op = "deduct_credit"
    /\ call[p].pc \in {"watch", "get", "exec"}
    /\ call' = [call EXCEPT ![p] = Returned(Failed(call[p]), FALSE, "error")]
    /\ watched' = Unwatch(p)
    /\ dirty' = [dirty EXCEPT ![p] = FALSE]
    /\ UNCHANGED <<credits, initial, issued>>
    /\ UNCHANGED outsideLedger

\* the user whose balance the concurrent deductions of SpecDeduct contend for
Contended == "u1"

InitDeduct ==
    /\ InitLedger
    /\ \A u \in Users \ {Contended} : credits[u] = NoKey

NextDeduct ==
    \E p \in Procs :
        \/ \E a \in Amounts : CallDeduct(p, Contended, a)
        \/ DeductWatch(p)
        \/ DeductGet(p)
        \/ DeductExecute(p)
        \/ DeductError(p)

----------------------------------------------------------------------------
(* CreditSystem.transfer_credits *)

CallTransfer(p, f, t, a) ==
    /\ call[p].pc = "idle"
    /\ call' = [call EXCEPT ![p] = NewCall("transfer_credits", f, t, a, "watch")]
    /\ issued' = issued + 1
    /\ UNCHANGED <<credits, watched, dirty, initial>>
    /\ UNCHANGED outsideLedger

\* await pipe.watch(from_key): only the sender's key is watched
TransferWatch(p) ==
    /\ call[p].op = "transfer_credits"
    /\ call[p].pc = "watch"
    /\ watched' = [watched EXCEPT ![p] = {call[p].user}]
    /\ dirty' = [dirty EXCEPT ![p] = FALSE]
    /\ call' = [call EXCEPT ![p].pc = "get"]
    /\ UNCHANGED <<credits, initial, issued>>
    /\ UNCHANGED outsideLedger

\* current = await pipe.get(from_key); if current < amount: return False
TransferGet(p) ==
    /\ call[p].op = "transfer_credits"
    /\ call[p].pc = "get"
    /\ LET current == Balance(call[p].user) IN
       IF current < call[p].amount
       THEN /\ call' = [call EXCEPT ![p] = Returned(call[p], FALSE, "insufficient")]
            /\ watched' = Unwatch(p)
            /\ dirty' = [dirty EXCEPT ![p] = FALSE]
       ELSE /\ call' = [call EXCEPT ![p].pc = "exec", ![p].current = current]
            /\ UNCHANGED <<watched, dirty>>
    /\ UNCHANGED <<credits, initial, issued>>
    /\ UNCHANGED outsideLedger

\* a mutant: the debit and the credit are sent as two commands outside one
\* MULTI/EXEC and the call is interrupted after the first
Transferred_DebitOnly(f, t, a) ==
    [credits EXCEPT ![f] = Stored(Balance(f) - a)]

\* DECRBY from_key amount; INCRBY to_key amount, in this order, in one EXEC
Transferred(f, t, a) ==
    LET debited == [credits EXCEPT ![f] = Stored(Balance(f) - a)]
    IN  [debited EXCEPT ![t] = Stored(IntOf(debited[t]) + a)]

\* await pipe.execute(): MULTI, DECRBY, INCRBY, EXEC; WatchError: retry
TransferExecute(p) ==
    /\ call[p].op = "transfer_credits"
    /\ call[p].pc = "exec"
    /\ IF dirty[p]
       THEN /\ call' = [call EXCEPT ![p].pc = "watch"]
            /\ UNCHANGED credits
            /\ dirty' = [dirty EXCEPT ![p] = FALSE]
       ELSE /\ credits' = Transferred(call[p].user, call[p].to, call[p].amount)
            /\ dirty' = [Touch(p, {call[p].user, call[p].to}) EXCEPT ![p] = FALSE]
            /\ call' = [call EXCEPT ![p] = Returned(call[p], TRUE, "none")]
    /\ watched' = Unwatch(p)
    /\ UNCHANGED <<initial, issued>>
    /\ UNCHANGED outsideLedger

\* redis.RedisError from a command of the pipeline: return False
TransferError(p) ==
    /\ call[p].op = "transfer_credits"
    /\ call[p].pc \in {"watch", "get", "exec"}
    /\ call' = [call EXCEPT ![p] = Returned(Failed(call[p]), FALSE, "error")]
    /\ watched' = Unwatch(p)
    /\ dirty' = [dirty EXCEPT ![p] = FALSE]
    /\ UNCHANGED <<credits, initial, issued>>
    /\ UNCHANGED outsideLedger

----------------------------------------------------------------------------
(* The single-command operations, run through _execute_redis_operation *)

\* max_retries of _execute_redis_operation
MAX_RETRIES == 3

\* amounts set_credits accepts: any int, none is refused
SetAmounts == (-1)..MaxAmount
\* changes batch_update_credits accepts: any int per user
Changes == {-1, 1}
\* updates: Dict[int, int], as a set of <<user, change>> with one change a user
Updates ==
    {ups \in SUBSET (Users \X Changes) :
        /\ ups # {}
        /\ \A x, y \in ups : x[1] = y[1] => x = y}

SimpleOps == {"add_credit", "get_credits", "set_credits", "reset_credits"}

\* the task calls add_credit(u, a)
CallAdd(p, u, a) ==
    /\ call[p].pc = "idle"
    /\ call' = [call EXCEPT ![p] = NewCall("add_credit", u, u, a, "op")]
    /\ issued' = issued + 1
    /\ UNCHANGED <<credits, watched, dirty, initial>>
    /\ UNCHANGED outsideLedger

CallGet(p, u) ==
    /\ call[p].pc = "idle"
    /\ call' = [call EXCEPT ![p] = NewCall("get_credits", u, u, 0, "op")]
    /\ issued' = issued + 1
    /\ UNCHANGED <<credits, watched, dirty, initial>>
    /\ UNCHANGED outsideLedger

CallSet(p, u, n) ==
    /\ call[p].pc = "idle"
    /\ call' = [call EXCEPT ![p] = NewCall("set_credits", u, u, n, "op")]
    /\ issued' = issued + 1
    /\ UNCHANGED <<credits, watched, dirty, initial>>
    /\ UNCHANGED outsideLedger

CallReset(p, u) ==
    /\ call[p].pc = "idle"
    /\ call' = [call EXCEPT ![p] = NewCall("reset_credits", u, u, 0, "op")]
    /\ issued' = issued + 1
    /\ UNCHANGED <<credits, watched, dirty, initial>>
    /\ UNCHANGED outsideLedger

\* a mutant: SET instead of INCRBY
AddCredit_Sets(u, a) == [credits EXCEPT ![u] = Stored(a)]

\* add_credit: INCRBY key amount
AddCredit(u, a) == [credits EXCEPT ![u] = Stored(Balance(u) + a)]

\* set_credits: SET key amount
SetCredits(u, n) == [credits EXCEPT ![u] = Stored(n)]

\* reset_credits: SET key 0
ResetCredits(u) == [credits EXCEPT ![u] = Stored(0)]

\* the store after the command of call c
Applied(c) ==
    CASE c.op = "add_credit" -> AddCredit(c.user, c.amount)
      [] c.op = "set_credits" -> SetCredits(c.user, c.amount)
      [] c.op = "reset_credits" -> ResetCredits(c.user)
      [] OTHER -> credits

\* a mutant: get_credits tells only whether there are credits
Completed_AnyCredits(c) ==
    IF c.op = "get_credits"
    THEN [c EXCEPT !.pc = "done", !.attempt = 0,
                   !.value = IF Balance(c.user) > 0 THEN 1 ELSE 0]
    ELSE Returned(c, TRUE, "none")

\* what the operation returns when its command went through
Completed(c) ==
    IF c.op = "get_credits"
    THEN [c EXCEPT !.pc = "done", !.value = Balance(c.user), !.attempt = 0]
    ELSE Returned(c, TRUE, "none")

\* an attempt of _execute_redis_operation whose command goes through
ExecuteRedisOperation(p) ==
    /\ call[p].op \in SimpleOps
    /\ call[p].pc = "op"
    /\ credits' = Applied(call[p])
    /\ dirty' = IF call[p].op = "get_credits" THEN dirty ELSE Touch(p, {call[p].user})
    /\ call' = [call EXCEPT ![p] = Completed(call[p])]
    /\ UNCHANGED <<watched, initial, issued>>
    /\ UNCHANGED outsideLedger

\* an attempt that raises redis.RedisError: sleep and try again, or after
\* the last attempt raise CreditSystemError, which the operation catches:
\* it logs and returns False (get_credits: 0)
ExecuteRedisOperationFails(p) ==
    /\ call[p].op \in SimpleOps
    /\ call[p].pc = "op"
    /\ IF call[p].attempt = MAX_RETRIES - 1
       THEN call' = [call EXCEPT ![p] = Returned(Failed(call[p]), FALSE, "error")]
       ELSE call' = [call EXCEPT ![p] = [Failed(call[p]) EXCEPT !.attempt = @ + 1]]
    /\ UNCHANGED <<credits, watched, dirty, initial, issued>>
    /\ UNCHANGED outsideLedger

----------------------------------------------------------------------------
(* CreditSystem.batch_update_credits *)

CallBatch(p, ups) ==
    /\ call[p].pc = "idle"
    /\ call' = [call EXCEPT ![p] =
                   [NewCall("batch_update_credits", "u1", "u1", 0, "exec")
                       EXCEPT !.updates = ups]]
    /\ issued' = issued + 1
    /\ UNCHANGED <<credits, watched, dirty, initial>>
    /\ UNCHANGED outsideLedger

\* for user_id, change in updates.items(): pipe.incrby(key, change)
BatchUpdated(ups) ==
    [u \in Users |->
        IF \E x \in ups : x[1] = u
        THEN Stored(Balance(u) + (CHOOSE x \in ups : x[1] = u)[2])
        ELSE credits[u]]

\* await pipe.execute(): every INCRBY in one MULTI/EXEC, nothing watched
BatchExecute(p) ==
    /\ call[p].op = "batch_update_credits"
    /\ call[p].pc = "exec"
    /\ credits' = BatchUpdated(call[p].updates)
    /\ dirty' = Touch(p, {x[1] : x \in call[p].updates})
    /\ call' = [call EXCEPT ![p] = Returned(call[p], TRUE, "none")]
    /\ UNCHANGED <<watched, initial, issued>>
    /\ UNCHANGED outsideLedger

\* redis.RedisError from EXEC: log and return False
BatchError(p) ==
    /\ call[p].op = "batch_update_credits"
    /\ call[p].pc = "exec"
    /\ call' = [call EXCEPT ![p] = Returned(Failed(call[p]), FALSE, "error")]
    /\ UNCHANGED <<credits, watched, dirty, initial, issued>>
    /\ UNCHANGED outsideLedger

----------------------------------------------------------------------------
(* All ledger operations, called concurrently by NumClients tasks *)

\* the caller takes the result; the task is free to make its next call
Return(p) ==
    /\ call[p].pc = "done"
    /\ call' = [call EXCEPT ![p] = IdleCall]
    /\ UNCHANGED <<credits, watched, dirty, initial, issued>>
    /\ UNCHANGED outsideLedger

\* a task calls one of the operations, with any arguments
CallLedger(p) ==
    \/ \E u \in Users, a \in Amounts : CallDeduct(p, u, a)
    \/ \E f \in Users, t \in Users, a \in Amounts : CallTransfer(p, f, t, a)
    \/ \E u \in Users, a \in Amounts : CallAdd(p, u, a)
    \/ \E u \in Users : CallGet(p, u)
    \/ \E u \in Users, n \in SetAmounts : CallSet(p, u, n)
    \/ \E u \in Users : CallReset(p, u)
    \/ \E ups \in Updates : CallBatch(p, ups)

NextLedger ==
    \E p \in Clients :
        \/ issued < MaxCalls /\ CallLedger(p)
        \/ DeductWatch(p)
        \/ DeductGet(p)
        \/ DeductExecute(p)
        \/ DeductError(p)
        \/ TransferWatch(p)
        \/ TransferGet(p)
        \/ TransferExecute(p)
        \/ TransferError(p)
        \/ ExecuteRedisOperation(p)
        \/ ExecuteRedisOperationFails(p)
        \/ BatchExecute(p)
        \/ BatchError(p)
        \/ Return(p)

----------------------------------------------------------------------------
(* Concurrent transfer_credits calls, one per client *)

\* a user whose balance is 0 has no key yet
InitTransfer ==
    /\ InitLedger
    /\ \A u \in Users : credits[u] = NoKey <=> initial[u] = 0

\* the amounts transferred in SpecTransfer
TransferAmounts == {1, 2}

NextTransfer ==
    \E p \in Clients :
        \/ \E f \in Users, t \in Users, a \in TransferAmounts : CallTransfer(p, f, t, a)
        \/ TransferWatch(p)
        \/ TransferGet(p)
        \/ TransferExecute(p)
        \/ TransferError(p)

----------------------------------------------------------------------------
(* deduct_credit and transfer_credits against a writer that never stops *)

\* the task whose calls are watched, and the task that keeps writing
Deductor == 1

Writer == 2

\* the balances the writer sets
WriterAmounts == 1..MaxBalance

\* the writer calls set_credits(u, n), again and again
WriterCall(p, u, n) ==
    /\ call[p].pc = "idle"
    /\ call' = [call EXCEPT ![p] = NewCall("set_credits", u, u, n, "op")]
    /\ UNCHANGED <<credits, watched, dirty, initial, issued>>
    /\ UNCHANGED outsideLedger

\* a step of the deductor's call in progress
DeductorStep ==
    \/ DeductWatch(Deductor)
    \/ DeductGet(Deductor)
    \/ DeductExecute(Deductor)
    \/ TransferWatch(Deductor)
    \/ TransferGet(Deductor)
    \/ TransferExecute(Deductor)

NextConflict ==
    \/ issued < MaxCalls /\ \E a \in Amounts : CallDeduct(Deductor, Contended, a)
    \/ issued < MaxCalls /\ \E t \in Users \ {Contended}, a \in Amounts :
                                CallTransfer(Deductor, Contended, t, a)
    \/ DeductWatch(Deductor)
    \/ DeductGet(Deductor)
    \/ DeductExecute(Deductor)
    \/ TransferWatch(Deductor)
    \/ TransferGet(Deductor)
    \/ TransferExecute(Deductor)
    \/ Return(Deductor)
    \/ \E n \in WriterAmounts : WriterCall(Writer, Contended, n)
    \/ ExecuteRedisOperation(Writer)
    \/ Return(Writer)

\* the store answers every command and every sleep between two attempts
\* ends: a call in progress takes its next step
ConflictFairness ==
    /\ WF_vars(DeductorStep)
    /\ WF_vars(ExecuteRedisOperation(Writer))
    /\ WF_vars(Return(Writer))

----------------------------------------------------------------------------
(* InMemoryQueue *)

\* capacity of the queue of SpecQueue
QueueCapacity == 2

\* calls made on the queue in one behaviour: enough to fill and drain it
MaxOps == 2 * QueueCapacity + 2

\* InMemoryQueue(max_size)
NewQueue(max_size) ==
    [items |-> <<>>, max_size |-> max_size, closed |-> FALSE,
     total_enqueued |-> 0, total_dequeued |-> 0]

\* deque(maxlen=n).append(x): a full deque drops its leftmost item
DequeAppend(items, maxlen, x) ==
    IF Len(items) >= maxlen
    THEN IF maxlen = 0 THEN <<>> ELSE Append(Tail(items), x)
    ELSE Append(items, x)

\* a mutant: the capacity test is off by one
EnqueueAccepts_OffByOne(q) == ~q.closed /\ ~(Len(q.items) > q.max_size)

\* a mutant: a closed queue still takes items
EnqueueAccepts_IgnoresClosed(q) == ~(Len(q.items) >= q.max_size)

\* enqueue raises QueueFullError when the queue is closed or full
EnqueueAccepts(q) == ~q.closed /\ ~(Len(q.items) >= q.max_size)

\* self._queue.append(item); self._total_enqueued += 1
Enqueued(q, item) ==
    [q EXCEPT !.items = DequeAppend(q.items, q.max_size, item),
              !.total_enqueued = @ + 1]

\* a mutant: the last buffered item is never handed out
DequeueAvailable_LeavesLast(q) == Len(q.items) > 1

\* dequeue raises QueueEmptyError when nothing is buffered, closed or not
DequeueAvailable(q) ==
    ~(q.closed /\ Len(q.items) = 0) /\ ~(Len(q.items) = 0)

\* a mutant: pop() instead of popleft()
DequeueItem_Newest(q) == q.items[Len(q.items)]

\* item = self._queue.popleft()
DequeueItem(q) == Head(q.items)

\* self._queue.popleft(); self._total_dequeued += 1
Dequeued(q) ==
    [q EXCEPT !.items = Tail(q.items), !.total_dequeued = @ + 1]

\* self._closed = True
Closed(q) == [q EXCEPT !.closed = TRUE]

\* the consumer loop: its position, the item of its current or last cycle
\* and (history) how the handler of its last finished cycle ended
IdleConsumer == [pc |-> "idle", item |-> 0, last |-> "none"]

Finished(c, how) == [c EXCEPT !.pc = "idle", !.last = how]

InitQueue ==
    /\ queue = NewQueue(QueueCapacity)
    /\ consumer = IdleConsumer
    /\ qlog = <<>>

\* the work item a producer passes: one new item per enqueue call
NewItem == Cardinality({i \in DOMAIN qlog : qlog[i].op = "enqueue"}) + 1

Logged(o, r, x, who) == Append(qlog, [op |-> o, result |-> r, item |-> x, by |-> who])

\* a producer calls enqueue(item)
QueueEnqueue ==
    /\ Len(qlog) < MaxOps
    /\ IF EnqueueAccepts(queue)
       THEN /\ queue' = Enqueued(queue, NewItem)
            /\ qlog' = Logged("enqueue", "ok", NewItem, "caller")
       ELSE /\ queue' = queue
            /\ qlog' = Logged("enqueue", "QueueFullError", NewItem, "caller")
    /\ UNCHANGED <<consumer, outsideQueue>>

\* a task calls dequeue()
QueueDequeue ==
    /\ Len(qlog) < MaxOps
    /\ IF DequeueAvailable(queue)
       THEN /\ queue' = Dequeued(queue)
            /\ qlog' = Logged("dequeue", "ok", DequeueItem(queue), "caller")
       ELSE /\ queue' = queue
            /\ qlog' = Logged("dequeue", "QueueEmptyError", 0, "caller")
    /\ UNCHANGED <<consumer, outsideQueue>>

\* a task calls close()
QueueClose ==
    /\ Len(qlog) < MaxOps
    /\ queue' = Closed(queue)
    /\ qlog' = Logged("close", "ok", 0, "caller")
    /\ UNCHANGED <<consumer, outsideQueue>>

\* one cycle of the consumer loop: item = await queue.dequeue(), then the
\* handler is entered with the item; QueueEmptyError: sleep 0.1 s
ConsumerCycle ==
    /\ consumer.pc = "idle"
    /\ Len(qlog) < MaxOps
    /\ IF DequeueAvailable(queue)
       THEN /\ queue' = Dequeued(queue)
            /\ consumer' = [consumer EXCEPT !.pc = "handling",
                                            !.item = DequeueItem(queue)]
            /\ qlog' = Logged("dequeue", "ok", DequeueItem(queue), "consumer")
       ELSE /\ queue' = queue
            /\ consumer' = consumer
            /\ qlog' = Logged("dequeue", "QueueEmptyError", 0, "consumer")
    /\ UNCHANGED outsideQueue

\* the handler returns: the cycle is over
HandlerReturns ==
    /\ consumer.pc = "handling"
    /\ consumer' = Finished(consumer, "returned")
    /\ UNCHANGED <<queue, qlog, outsideQueue>>

\* a mutant: a failed item is put back for a retry
HandlerRaises_Requeues ==
    /\ consumer.pc = "handling"
    /\ consumer' = Finished(consumer, "raised")
    /\ queue' = [queue EXCEPT !.items = DequeAppend(queue.items, queue.max_size, consumer.item)]
    /\ UNCHANGED <<qlog, outsideQueue>>

\* the handler raises: `except Exception` logs the error and sleeps 1 s;
\* the item is gone
HandlerRaises ==
    /\ consumer.pc = "handling"
    /\ consumer' = Finished(consumer, "raised")
    /\ UNCHANGED <<queue, qlog, outsideQueue>>

NextQueue ==
    \/ QueueEnqueue
    \/ QueueDequeue
    \/ QueueClose
    \/ ConsumerCycle
    \/ HandlerReturns
    \/ HandlerRaises

----------------------------------------------------------------------------
(* InMemoryQueue.process_queue *)

\* a mutant: the loop ends as soon as the queue is closed
ProcessQueueRuns_UntilClosed(q) == ~q.closed

\* while not self._closed or len(self._queue) > 0
ProcessQueueRuns(q) == ~q.closed \/ Len(q.items) > 0

\* one round of the loop that finds an item: item = await self.dequeue(),
\* then the handler is entered with it.  A round that finds none raises
\* QueueEmptyError, sleeps 0.1 s and changes nothing
ProcessQueueCycle ==
    /\ consumer.pc = "idle"
    /\ ProcessQueueRuns(queue)
    /\ DequeueAvailable(queue)
    /\ queue' = Dequeued(queue)
    /\ consumer' = [consumer EXCEPT !.pc = "handling", !.item = DequeueItem(queue)]
    /\ qlog' = Logged("dequeue", "ok", DequeueItem(queue), "consumer")
    /\ UNCHANGED outsideQueue

\* the loop test fails: "Queue processing completed"
ProcessQueueExit ==
    /\ consumer.pc = "idle"
    /\ ~ProcessQueueRuns(queue)
    /\ consumer' = [consumer EXCEPT !.pc = "stopped"]
    /\ UNCHANGED <<queue, qlog, outsideQueue>>

\* producers enqueue, some task closes the queue, process_queue consumes
NextProcessQueue ==
    \/ QueueEnqueue
    \/ QueueClose
    \/ ProcessQueueCycle
    \/ ProcessQueueExit
    \/ HandlerReturns
    \/ HandlerRaises

\* the loop goes on and the handlers terminate
ProcessQueueFairness ==
    /\ WF_vars(ProcessQueueCycle)
    /\ WF_vars(ProcessQueueExit)
    /\ WF_vars(HandlerReturns \/ HandlerRaises)

----------------------------------------------------------------------------
(* The read operations of InMemoryQueue: peek, size, get_statistics *)

\* calls made on the queue in one behaviour of SpecQueueApi: enough to fill
\* the queue, be refused and look at it
MaxApiOps == QueueCapacity + 3

\* a mutant: peek looks at the newest item
PeekItem_Newest(q) == IF Len(q.items) > 0 THEN q.items[Len(q.items)] ELSE 0

\* return self._queue[0] if self._queue else None (0: None)
PeekItem(q) == IF Len(q.items) > 0 THEN q.items[1] ELSE 0

\* the dict get_statistics returns (name and last_operation_time left out)
Statistics(q) ==
    [current_size |-> Len(q.items), max_size |-> q.max_size,
     total_enqueued |-> q.total_enqueued, total_dequeued |-> q.total_dequeued,
     is_full |-> (Len(q.items) = q.max_size), is_empty |-> (Len(q.items) = 0),
     is_closed |-> q.closed]

\* a task calls peek()
QueuePeek ==
    /\ qlog' = Logged("peek", "ok", PeekItem(queue), "caller")
    /\ UNCHANGED <<queue, consumer, outsideQueue>>

\* a task calls size()
QueueSize ==
    /\ qlog' = Logged("size", "ok", Len(queue.items), "caller")
    /\ UNCHANGED <<queue, consumer, outsideQueue>>

\* a task calls get_statistics()
QueueStatistics ==
    /\ qlog' = Logged("get_statistics", "ok", Statistics(queue).current_size, "caller")
    /\ UNCHANGED <<queue, consumer, outsideQueue>>

\* tasks call the operations of the queue in any order
NextQueueApi ==
    \/ Len(qlog) < MaxApiOps /\ QueueEnqueue
    \/ Len(qlog) < MaxApiOps /\ QueueDequeue
    \/ Len(qlog) < MaxApiOps /\ QueueClose
    \/ Len(qlog) < MaxApiOps /\ QueuePeek
    \/ Len(qlog) < MaxApiOps /\ QueueSize
    \/ Len(qlog) < MaxApiOps /\ QueueStatistics

----------------------------------------------------------------------------
(* InMemoryQueue.clear *)

\* self._queue.clear(): the counters stay as they are
Cleared(q) == [q EXCEPT !.items = <<>>]

\* a task calls clear()
QueueClear ==
    /\ queue' = Cleared(queue)
    /\ qlog' = Logged("clear", "ok", 0, "caller")
    /\ UNCHANGED <<consumer, outsideQueue>>

\* tasks call enqueue, dequeue, peek, clear and close in any order
NextQueueClear ==
    \/ Len(qlog) < MaxApiOps /\ QueueEnqueue
    \/ Len(qlog) < MaxApiOps /\ QueueDequeue
    \/ Len(qlog) < MaxApiOps /\ QueuePeek
    \/ Len(qlog) < MaxApiOps /\ QueueClear
    \/ Len(qlog) < MaxApiOps /\ QueueClose

----------------------------------------------------------------------------
(* ImageProductCommand.generate_product, the /dream command *)

\* InMemoryQueue(max_size=50, name="image_generation_queue")
IMAGE_QUEUE_MAX_SIZE == 50

\* the tasks that run /dream in SpecDream: the invocations follow one
\* another while no consumer takes an item (its handler is still waiting
\* for an image)
DreamTasks == {1}

\* /dream invocations in one behaviour: enough to fill the queue and go on
MaxDreams == IMAGE_QUEUE_MAX_SIZE + 1

IdleCmd ==
    [name |-> "none", user |-> "u1", id |-> 0, pc |-> "idle",
     before |-> 0, reply |-> "none"]

\* InMemoryQueue(max_size=100, name="product_creation_queue")
PRODUCT_QUEUE_MAX_SIZE == 100

\* await asyncio.sleep(900); timedelta(minutes=15), in seconds
SWEEP_PERIOD == 900

SWEEP_MAX_AGE == 900

\* a consumer loop of the cog: where it is, the interaction id of the item
\* in its hands, and what its handler has got so far
IdleWorker == [pc |-> "waiting", id |-> 0, image_url |-> FALSE]

\* no _send_followup in progress
IdleFollowup ==
    [pc |-> "idle", id |-> 0, kind |-> "none", cached |-> FALSE,
     tried |-> <<>>, via |-> "none", logged |-> "none"]

InitDream ==
    /\ image_generation_queue = NewQueue(IMAGE_QUEUE_MAX_SIZE)
    /\ interaction_cache = {}
    /\ cmd = [p \in Procs |-> IdleCmd]
    /\ nextId = 1
    /\ now = 0
    /\ product_creation_queue = NewQueue(PRODUCT_QUEUE_MAX_SIZE)
    /\ imgw = IdleWorker
    /\ prodw = IdleWorker
    /\ followup = IdleFollowup
    /\ sweeper = [wake |-> SWEEP_PERIOD, last |-> -1]
    /\ outbox = <<>>
    /\ removed = {}
    /\ nested = {}
    /\ faults = {}

\* the command ends with the message it sent last
Replied(c, msg) == [c EXCEPT !.pc = "done", !.reply = msg]

\* self.interaction_cache[interaction.id] = cached_interaction, whose
\* timestamp is datetime.utcnow()
Cached(cache, id, u) ==
    {e \in cache : e.id # id} \cup {[id |-> id, user_id |-> u, timestamp |-> now]}

\* user u invokes /dream: defer the response, then
\* credits = await self.credit_system.get_credits(user_id)
DreamInvoke(p, u) ==
    /\ cmd[p].pc = "idle"
    /\ call[p].pc = "idle"
    /\ cmd' = [cmd EXCEPT ![p] =
                  [IdleCmd EXCEPT !.name = "generate_product", !.user = u,
                                  !.id = nextId, !.pc = "credits",
                                  !.before = Balance(u)]]
    /\ nextId' = nextId + 1
    /\ call' = [call EXCEPT ![p] = NewCall("get_credits", u, u, 0, "op")]
    /\ UNCHANGED <<credits, watched, dirty, initial, issued>>
    /\ UNCHANGED <<image_generation_queue, interaction_cache>>
    /\ UNCHANGED outsideDream

\* a mutant: only a negative balance is refused
Insufficient_Negative(n) == n < 0

\* if credits < 1
Insufficient(n) == n < 1

\* if credits < 1: "You do not have enough credits"; return.  Otherwise
\* success = await self.credit_system.deduct_credit(user_id, 1)
DreamChecked(p) ==
    /\ cmd[p].pc = "credits"
    /\ call[p].pc = "done"
    /\ IF Insufficient(call[p].value)
       THEN /\ cmd' = [cmd EXCEPT ![p] = Replied(cmd[p], "not_enough_credits")]
            /\ call' = [call EXCEPT ![p] = IdleCall]
       ELSE /\ cmd' = [cmd EXCEPT ![p].pc = "deduct"]
            /\ call' = [call EXCEPT ![p] =
                           NewCall("deduct_credit", cmd[p].user, cmd[p].user, 1, "watch")]
    /\ UNCHANGED <<credits, watched, dirty, initial, issued>>
    /\ UNCHANGED <<image_generation_queue, interaction_cache, nextId>>
    /\ UNCHANGED outsideDream

\* if not success: "Failed to deduct credit"; return.  Otherwise
\* remaining_credits = await self.credit_system.get_credits(user_id)
DreamDeducted(p) ==
    /\ cmd[p].pc = "deduct"
    /\ call[p].pc = "done"
    /\ IF ~call[p].ret
       THEN /\ cmd' = [cmd EXCEPT ![p] = Replied(cmd[p], "failed_to_deduct")]
            /\ call' = [call EXCEPT ![p] = IdleCall]
       ELSE /\ cmd' = [cmd EXCEPT ![p].pc = "remaining"]
            /\ call' = [call EXCEPT ![p] =
                           NewCall("get_credits", cmd[p].user, cmd[p].user, 0, "op")]
    /\ UNCHANGED <<credits, watched, dirty, initial, issued>>
    /\ UNCHANGED <<image_generation_queue, interaction_cache, nextId>>
    /\ UNCHANGED outsideDream

\* await interaction.followup.send("1 credit has been deducted ...")
DreamRemaining(p) ==
    /\ cmd[p].pc = "remaining"
    /\ call[p].pc = "done"
    /\ cmd' = [cmd EXCEPT ![p].pc = "enqueue"]
    /\ call' = [call EXCEPT ![p] = IdleCall]
    /\ UNCHANGED <<credits, watched, dirty, initial, issued>>
    /\ UNCHANGED <<image_generation_queue, interaction_cache, nextId>>
    /\ UNCHANGED outsideDream

\* the entry is cached under the lock, then the item is enqueued; no
\* await in between suspends.  QueueFullError: "We're currently processing
\* too many requests"; otherwise "Your image generation request has been
\* queued"
DreamEnqueue(p) ==
    /\ cmd[p].pc = "enqueue"
    /\ interaction_cache' = Cached(interaction_cache, cmd[p].id, cmd[p].user)
    /\ IF EnqueueAccepts(image_generation_queue)
       THEN /\ image_generation_queue' = Enqueued(image_generation_queue, cmd[p].id)
            /\ cmd' = [cmd EXCEPT ![p] = Replied(cmd[p], "queued")]
       ELSE /\ image_generation_queue' = image_generation_queue
            /\ cmd' = [cmd EXCEPT ![p] = Replied(cmd[p], "too_many_requests")]
    /\ UNCHANGED <<ledgerVars, nextId>>
    /\ UNCHANGED outsideDream

\* the command has returned; the task may run the next invocation
DreamReturn(p) ==
    /\ cmd[p].pc = "done"
    /\ cmd' = [cmd EXCEPT ![p] = IdleCmd]
    /\ UNCHANGED <<ledgerVars, image_generation_queue, interaction_cache, nextId>>
    /\ UNCHANGED outsideDream

\* the user who invokes /dream in SpecDream
Dreamer == "u1"

\* the dreamer never used the ledger, or has spent every credit, or has a
\* credit for every slot of the queue and one more
InitDreamLedger ==
    /\ credits \in [Users -> {NoKey, Stored(0), Stored(IMAGE_QUEUE_MAX_SIZE + 1)}]
    /\ \A u \in Users \ {Dreamer} : credits[u] = NoKey
    /\ initial = [u \in Users |-> IntOf(credits[u])]
    /\ watched = [p \in Procs |-> {}]
    /\ dirty = [p \in Procs |-> FALSE]
    /\ call = [p \in Procs |-> IdleCall]
    /\ issued = 0

NextDream ==
    \E p \in DreamTasks :
        \/ nextId <= MaxDreams /\ DreamInvoke(p, Dreamer)
        \/ DreamChecked(p)
        \/ DreamDeducted(p)
        \/ DreamRemaining(p)
        \/ DreamEnqueue(p)
        \/ DreamReturn(p)
        \/ ExecuteRedisOperation(p)
        \/ DeductWatch(p)
        \/ DeductGet(p)
        \/ DeductExecute(p)

----------------------------------------------------------------------------
(* The claim cooldown: can_claim, set_last_claim and the /claim command *)

\* set_last_claim: SET key "1" ex=86400
LAST_CLAIM_EX == 86400

\* claim: add_credit(user_id, 5)
DAILY_CREDITS == 5

\* times the clock is advanced in one behaviour
MaxTicks == 2

\* /claim invocations and calls of the cooldown operations in one behaviour
MaxClaims == 3

\* seconds by which the clock is advanced at once
Elapses == {1, LAST_CLAIM_EX - 1, LAST_CLAIM_EX}

\* the tasks that run /claim or call the cooldown operations
ClaimTasks == {1, 2}

\* the user who claims
Claimer == "u1"

CooldownOps == {"can_claim", "set_last_claim"}

\* a /claim invocation: its position, its reply and (history) whether the
\* marker was live when its can_claim read it and whether its add_credit
\* went through
IdleClaim ==
    [pc |-> "idle", user |-> "u1", reply |-> "none", live |-> FALSE,
     granted |-> FALSE]

InitCooldown ==
    /\ last_claim = [u \in Users |-> 0]
    /\ since = [u \in Users |-> -1]
    /\ renewed = [u \in Users |-> 0]
    /\ ticks = 0
    /\ claimcmd = [p \in Procs |-> IdleClaim]

\* Redis TTL key: -2 when the key does not exist, else the seconds left
Ttl(u) == IF last_claim[u] = 0 THEN -2 ELSE last_claim[u]

\* history: the key of u was SET less than LAST_CLAIM_EX seconds ago
MarkerLive(u) == since[u] >= 0 /\ since[u] < LAST_CLAIM_EX

\* a mutant: the last second of the cooldown does not count
CanClaim_LastSecond(ttl) == ttl <= 1

\* can_claim = ttl <= 0
CanClaim(ttl) == ttl <= 0

\* a mutant: no remaining time is reported
RemainingTime_Zero(ttl) == 0

\* remaining_time = max(0, ttl)
RemainingTime(ttl) == IF ttl > 0 THEN ttl ELSE 0

\* a mutant: the new window is added to what the old one had left
SetLastClaim_Stacks(u) == [last_claim EXCEPT ![u] = @ + LAST_CLAIM_EX]

\* Redis SET key "1" ex=86400: the key lives LAST_CLAIM_EX seconds from now
SetLastClaim(u) == [last_claim EXCEPT ![u] = LAST_CLAIM_EX]

\* d seconds pass: Redis drops a key whose time to live has run out
Tick(d) ==
    /\ ticks < MaxTicks
    /\ ticks' = ticks + 1
    /\ last_claim' = [u \in Users |->
                         IF last_claim[u] > d THEN last_claim[u] - d ELSE 0]
    /\ since' = [u \in Users |-> IF since[u] < 0 THEN since[u] ELSE since[u] + d]
    /\ UNCHANGED <<renewed, claimcmd>>
    /\ UNCHANGED <<ledgerVars, queueVars, dreamVars, loopVars, traceVars, lockVars>>

\* a task calls can_claim(u)
CallCanClaim(p, u) ==
    /\ call[p].pc = "idle"
    /\ claimcmd[p].pc = "idle"
    /\ call' = [call EXCEPT ![p] = NewCall("can_claim", u, u, 0, "op")]
    /\ issued' = issued + 1
    /\ UNCHANGED <<credits, watched, dirty, initial>>
    /\ UNCHANGED <<cooldownVars, queueVars, dreamVars, loopVars, traceVars, lockVars>>

\* a task calls set_last_claim(u)
CallSetLastClaim(p, u) ==
    /\ call[p].pc = "idle"
    /\ claimcmd[p].pc = "idle"
    /\ call' = [call EXCEPT ![p] = NewCall("set_last_claim", u, u, 0, "op")]
    /\ issued' = issued + 1
    /\ UNCHANGED <<credits, watched, dirty, initial>>
    /\ UNCHANGED <<cooldownVars, queueVars, dreamVars, loopVars, traceVars, lockVars>>

\* what can_claim returns for the ttl it read: (can_claim, remaining_time);
\* cause records whether the marker was live when TTL ran
CanClaimReturned(c, ttl) ==
    [Returned(c, CanClaim(ttl), IF MarkerLive(c.user) THEN "cooldown" ELSE "none")
        EXCEPT !.value = RemainingTime(ttl)]

\* an attempt of _execute_redis_operation, for can_claim (TTL) or for
\* set_last_claim (SET ... ex=86400), whose command goes through
CooldownOperation(p) ==
    /\ call[p].op \in CooldownOps
    /\ call[p].pc = "op"
    /\ IF call[p].op = "can_claim"
       THEN /\ call' = [call EXCEPT ![p] = CanClaimReturned(call[p], Ttl(call[p].user))]
            /\ UNCHANGED <<last_claim, since, renewed>>
       ELSE /\ call' = [call EXCEPT ![p] = Returned(call[p], TRUE, "none")]
            /\ last_claim' = SetLastClaim(call[p].user)
            /\ since' = [since EXCEPT ![call[p].user] = 0]
            /\ renewed' = [renewed EXCEPT ![call[p].user] = last_claim[call[p].user]]
    /\ UNCHANGED <<ticks, claimcmd>>
    /\ UNCHANGED <<credits, watched, dirty, initial, issued>>
    /\ UNCHANGED <<queueVars, dreamVars, loopVars, traceVars, lockVars>>

\* an attempt that raises redis.RedisError: sleep and try again, or after
\* the last attempt CreditSystemError, which the operation catches:
\* can_claim returns (False, 0), set_last_claim returns False
CooldownOperationFails(p) ==
    /\ call[p].op \in CooldownOps
    /\ call[p].pc = "op"
    /\ IF call[p].attempt = MAX_RETRIES - 1
       THEN call' = [call EXCEPT ![p] = Returned(Failed(call[p]), FALSE, "error")]
       ELSE call' = [call EXCEPT ![p] = [Failed(call[p]) EXCEPT !.attempt = @ + 1]]
    /\ UNCHANGED <<credits, watched, dirty, initial, issued>>
    /\ UNCHANGED <<cooldownVars, queueVars, dreamVars, loopVars, traceVars, lockVars>>

\* user u invokes /claim:
\* can_claim, remaining = await self.bot.credit_system.can_claim(user_id)
ClaimInvoke(p, u) ==
    /\ claimcmd[p].pc = "idle"
    /\ call[p].pc = "idle"
    /\ claimcmd' = [claimcmd EXCEPT ![p] = [IdleClaim EXCEPT !.pc = "can_claim", !.user = u]]
    /\ call' = [call EXCEPT ![p] = NewCall("can_claim", u, u, 0, "op")]
    /\ issued' = issued + 1
    /\ UNCHANGED <<last_claim, since, renewed, ticks>>
    /\ UNCHANGED <<credits, watched, dirty, initial>>
    /\ UNCHANGED <<queueVars, dreamVars, loopVars, traceVars, lockVars>>

\* if can_claim: await self.bot.credit_system.add_credit(user_id, 5);
\* else: "you've already claimed your daily credits"
ClaimChecked(p) ==
    /\ claimcmd[p].pc = "can_claim"
    /\ call[p].pc = "done"
    /\ IF call[p].ret
       THEN /\ claimcmd' = [claimcmd EXCEPT ![p].pc = "add",
                                            ![p].live = (call[p].cause = "cooldown")]
            /\ call' = [call EXCEPT ![p] =
                  NewCall("add_credit", claimcmd[p].user, claimcmd[p].user, DAILY_CREDITS, "op")]
       ELSE /\ claimcmd' = [claimcmd EXCEPT ![p].pc = "done",
                                            ![p].reply = "already_claimed",
                                            ![p].live = (call[p].cause = "cooldown")]
            /\ call' = [call EXCEPT ![p] = IdleCall]
    /\ UNCHANGED <<last_claim, since, renewed, ticks>>
    /\ UNCHANGED <<credits, watched, dirty, initial, issued>>
    /\ UNCHANGED <<queueVars, dreamVars, loopVars, traceVars, lockVars>>

\* add_credit has returned (its result is not looked at);
\* await self.bot.credit_system.set_last_claim(user_id)
ClaimAdded(p) ==
    /\ claimcmd[p].pc = "add"
    /\ call[p].pc = "done"
    /\ claimcmd' = [claimcmd EXCEPT ![p].pc = "set", ![p].granted = call[p].ret]
    /\ call' = [call EXCEPT ![p] =
                   NewCall("set_last_claim", claimcmd[p].user, claimcmd[p].user, 0, "op")]
    /\ UNCHANGED <<last_claim, since, renewed, ticks>>
    /\ UNCHANGED <<credits, watched, dirty, initial, issued>>
    /\ UNCHANGED <<queueVars, dreamVars, loopVars, traceVars, lockVars>>

\* set_last_claim has returned (its result is not looked at):
\* "you've successfully claimed 5 credits"
ClaimSet(p) ==
    /\ claimcmd[p].pc = "set"
    /\ call[p].pc = "done"
    /\ claimcmd' = [claimcmd EXCEPT ![p].pc = "done", ![p].reply = "claimed"]
    /\ call' = [call EXCEPT ![p] = IdleCall]
    /\ UNCHANGED <<last_claim, since, renewed, ticks>>
    /\ UNCHANGED <<credits, watched, dirty, initial, issued>>
    /\ UNCHANGED <<queueVars, dreamVars, loopVars, traceVars, lockVars>>

\* the command has returned; the task may run the next invocation
ClaimReturn(p) ==
    /\ claimcmd[p].pc = "done"
    /\ claimcmd' = [claimcmd EXCEPT ![p] = IdleClaim]
    /\ UNCHANGED <<last_claim, since, renewed, ticks>>
    /\ UNCHANGED <<ledgerVars, queueVars, dreamVars, loopVars, traceVars, lockVars>>

\* the caller of can_claim or set_last_claim takes the result
CooldownReturn(p) ==
    /\ claimcmd[p].pc = "idle"
    /\ call[p].op \in CooldownOps
    /\ Return(p)

NextClaim ==
    \/ \E d \in Elapses : Tick(d)
    \/ \E p \in ClaimTasks :
        \/ issued < MaxClaims /\ ClaimInvoke(p, Claimer)
        \/ ClaimChecked(p)
        \/ ClaimAdded(p)
        \/ ClaimSet(p)
        \/ ClaimReturn(p)
        \/ issued < MaxClaims /\ CallCanClaim(p, Claimer)
        \/ issued < MaxClaims /\ CallSetLastClaim(p, Claimer)
        \/ CooldownReturn(p)
        \/ CooldownOperation(p)
        \/ CooldownOperationFails(p)
        \/ ExecuteRedisOperation(p)
        \/ ExecuteRedisOperationFails(p)

----------------------------------------------------------------------------
(* Concurrent /dream invocations of one user *)

\* /dream is invoked by the same user from several tasks at once; the store
\* may fail any command
NextDreamRace ==
    \E p \in Clients :
        \/ nextId <= NumClients /\ DreamInvoke(p, Dreamer)
        \/ DreamChecked(p)
        \/ DreamDeducted(p)
        \/ DreamRemaining(p)
        \/ DreamEnqueue(p)
        \/ DreamReturn(p)
        \/ ExecuteRedisOperation(p)
        \/ ExecuteRedisOperationFails(p)
        \/ DeductWatch(p)
        \/ DeductGet(p)
        \/ DeductExecute(p)
        \/ DeductError(p)

----------------------------------------------------------------------------
(* The sweep of the interaction cache: _cleanup_interaction_cache *)

\* times the clock is advanced in one behaviour of the cog
MaxElapses == 4

\* /dream invocations in one behaviour of the cog
MaxRequests == 2

\* seconds by which the cog's clock is advanced at once
SweepElapses == {1, SWEEP_PERIOD - 1}

\* what the /dream command works on
commandVars == <<image_generation_queue, interaction_cache, cmd, nextId>>

\* d seconds pass, for the cog and for the store
Elapse(d) ==
    /\ ticks < MaxElapses
    /\ ticks' = ticks + 1
    /\ now' = now + d
    /\ last_claim' = [u \in Users |->
                         IF last_claim[u] > d THEN last_claim[u] - d ELSE 0]
    /\ since' = [u \in Users |-> IF since[u] < 0 THEN since[u] ELSE since[u] + d]
    /\ UNCHANGED <<renewed, claimcmd>>
    /\ UNCHANGED <<product_creation_queue, imgw, prodw, followup, sweeper,
                   outbox, removed, nested, faults>>
    /\ UNCHANGED <<ledgerVars, queueVars, commandVars, loopVars, traceVars, lockVars>>

\* cutoff = datetime.utcnow() - timedelta(minutes=15)
Cutoff == now - SWEEP_MAX_AGE

\* a mutant: the sweep deletes nothing
SweepRemoves_Never(e, cutoff) == FALSE

\* a mutant: an entry exactly max_age old goes too
SweepRemoves_AtMaxAge(e, cutoff) == e.timestamp <= cutoff

\* if cached.timestamp < cutoff
SweepRemoves(e, cutoff) == e.timestamp < cutoff

\* history: the entries of gone are deleted, by whom and when
Deleted(gone, who) ==
    removed \cup {[id |-> e.id, timestamp |-> e.timestamp, by |-> who, at |-> now] :
                     e \in gone}

\* asyncio.sleep(900) is over: under the lock, every entry older than the
\* cutoff is deleted; then the task sleeps again
Sweep ==
    /\ now >= sweeper.wake
    /\ LET to_remove == {e \in interaction_cache : SweepRemoves(e, Cutoff)} IN
          /\ interaction_cache' = interaction_cache \ to_remove
          /\ removed' = Deleted(to_remove, "sweep")
    /\ sweeper' = [wake |-> now + SWEEP_PERIOD, last |-> now]
    /\ UNCHANGED <<now, product_creation_queue, imgw, prodw, followup, outbox,
                   nested, faults>>
    /\ UNCHANGED <<image_generation_queue, cmd, nextId>>
    /\ UNCHANGED <<ledgerVars, queueVars, cooldownVars, loopVars, traceVars, lockVars>>

\* /dream invoked by a user with credits while time passes and the sweep
\* runs; no consumer takes the items
NextSweep ==
    \/ \E d \in SweepElapses : Elapse(d)
    \/ Sweep
    \/ \E p \in DreamTasks :
        \/ nextId <= MaxRequests /\ DreamInvoke(p, Dreamer)
        \/ DreamChecked(p)
        \/ DreamDeducted(p)
        \/ DreamRemaining(p)
        \/ DreamEnqueue(p)
        \/ DreamReturn(p)
        \/ ExecuteRedisOperation(p)
        \/ DeductWatch(p)
        \/ DeductGet(p)
        \/ DeductExecute(p)

----------------------------------------------------------------------------
(* The consumers of the cog: _process_image_generation, _send_followup *)
(* and _process_product_creation *)

\* what the consumers and the sweep leave alone: the handlers never call
\* the credit system
outsideCog == <<ledgerVars, queueVars, cooldownVars, loopVars, traceVars, lockVars>>

\* what followup.send can do: succeed, raise HTTPException with code 10062
\* (the interaction has expired), raise another HTTPException (Forbidden and
\* NotFound are HTTPExceptions), raise another DiscordException
Tier1Outcomes == {"sent", "expired", "http_error", "discord_error"}

\* the channel is not there or not a TextChannel; fetch_member raises; the
\* bot may not send; channel.send succeeds or raises
Tier2Outcomes ==
    {"no_channel", "fetch_member_raises", "no_permission", "sent", "forbidden",
     "http_error"}

\* fetch_user raises NotFound or another HTTPException; user.send succeeds
\* or raises
Tier3Outcomes == {"user_not_found", "fetch_http_error", "sent", "forbidden", "http_error"}

\* a mutant: the first tier is tried whether or not the entry was found
FollowupCall_Unchecked(id, kind) ==
    [pc |-> "tier1", id |-> id, kind |-> kind,
     cached |-> \E e \in interaction_cache : e.id = id, tried |-> <<>>,
     via |-> "none", logged |-> "none"]

\* _send_followup(interaction_id, ...) up to its first await on Discord:
\* the entry is read under the lock; without an entry no tier is tried
FollowupCall(id, kind) ==
    LET cached == \E e \in interaction_cache : e.id = id IN
        [pc |-> IF cached THEN "tier1" ELSE "done",
         id |-> id, kind |-> kind, cached |-> cached, tried |-> <<>>,
         via |-> "none", logged |-> IF cached THEN "none" ELSE "unable"]

\* history: a tier was tried
Tried(f, tier) == [f EXCEPT !.tried = Append(@, tier)]

\* the message went out through a tier: return
Sent(f, via) == [f EXCEPT !.pc = "done", !.via = via]

\* _send_followup returns without having sent
GaveUp(f, log) == [f EXCEPT !.pc = "done", !.logged = log]

\* history: a message that Discord accepted
Delivery(f, via) == [id |-> f.id, kind |-> f.kind, via |-> via]

\* Step 1: await cached_interaction.interaction.followup.send(...)
FollowupTier1(outcome) ==
    /\ followup.pc = "tier1"
    /\ LET f == Tried(followup, 1) IN
          CASE outcome = "sent" ->
                  /\ followup' = Sent(f, "interaction")
                  /\ outbox' = Append(outbox, Delivery(f, "interaction"))
            [] outcome = "http_error" ->
                  /\ followup' = GaveUp(f, "http_error")
                  /\ outbox' = outbox
            [] OTHER ->
                  /\ followup' = [f EXCEPT !.pc = "tier2"]
                  /\ outbox' = outbox
    /\ faults' = IF outcome = "sent" THEN faults ELSE faults \cup {followup.id}
    /\ UNCHANGED <<now, product_creation_queue, imgw, prodw, sweeper, removed, nested>>
    /\ UNCHANGED <<commandVars, outsideCog>>

\* Step 2: the channel of the interaction
FollowupTier2(outcome) ==
    /\ followup.pc = "tier2"
    /\ LET f == Tried(followup, 2) IN
          CASE outcome = "sent" ->
                  /\ followup' = Sent(f, "channel")
                  /\ outbox' = Append(outbox, Delivery(f, "channel"))
            [] outcome = "fetch_member_raises" ->
                  /\ followup' = GaveUp(f, "unexpected")
                  /\ outbox' = outbox
            [] OTHER ->
                  /\ followup' = [f EXCEPT !.pc = "tier3"]
                  /\ outbox' = outbox
    /\ UNCHANGED <<now, product_creation_queue, imgw, prodw, sweeper, removed,
                   nested, faults>>
    /\ UNCHANGED <<commandVars, outsideCog>>

\* Step 3: a direct message to the user; Step 4: "Unable to send follow-up"
FollowupTier3(outcome) ==
    /\ followup.pc = "tier3"
    /\ LET f == Tried(followup, 3) IN
          IF outcome = "sent"
          THEN /\ followup' = Sent(f, "dm")
               /\ outbox' = Append(outbox, Delivery(f, "dm"))
          ELSE /\ followup' = GaveUp(f, "unable")
               /\ outbox' = outbox
    /\ UNCHANGED <<now, product_creation_queue, imgw, prodw, sweeper, removed,
                   nested, faults>>
    /\ UNCHANGED <<commandVars, outsideCog>>

\* what _generate_and_upload_image and create_image_embed can do: a URL and
\* an embed, no URL (every exception ends as None), an embed that raises
ImageOutcomes == {"url", "none", "embed_raises"}

\* what add_product_to_shopify can do
ProductOutcomes == {"created", "raises"}

\* item = await self.image_generation_queue.dequeue();
\* image_url = await self._generate_and_upload_image(prompt)
ImageDequeue ==
    /\ imgw.pc = "waiting"
    /\ DequeueAvailable(image_generation_queue)
    /\ imgw' = [IdleWorker EXCEPT !.pc = "generating",
                                  !.id = DequeueItem(image_generation_queue)]
    /\ image_generation_queue' = Dequeued(image_generation_queue)
    /\ UNCHANGED <<interaction_cache, cmd, nextId>>
    /\ UNCHANGED <<now, product_creation_queue, prodw, followup, sweeper, outbox,
                   removed, nested, faults>>
    /\ UNCHANGED outsideCog

\* the image is there or not: _send_followup with the embed, with "Failed to
\* generate or upload the image" or, from the except branch, with "An
\* unexpected error occurred"
ImageGenerated(outcome) ==
    /\ imgw.pc = "generating"
    /\ followup.pc = "idle"
    /\ IF outcome = "url"
       THEN /\ imgw' = [imgw EXCEPT !.pc = "delivering", !.image_url = TRUE]
            /\ followup' = FollowupCall(imgw.id, "image_embed")
            /\ faults' = faults
       ELSE /\ imgw' = [imgw EXCEPT !.pc = "failing"]
            /\ followup' = FollowupCall(imgw.id,
                               IF outcome = "none" THEN "generation_failed"
                                                   ELSE "unexpected_error")
            /\ faults' = faults \cup {imgw.id}
    /\ UNCHANGED <<now, product_creation_queue, prodw, sweeper, outbox, removed, nested>>
    /\ UNCHANGED <<commandVars, outsideCog>>

\* a mutant: the request is refunded when its handler gives up
ImageFailed_Refunds ==
    /\ imgw.pc = "failing"
    /\ followup.pc = "done"
    /\ imgw' = IdleWorker
    /\ followup' = IdleFollowup
    /\ credits' = [credits EXCEPT ![Dreamer] = Stored(IntOf(@) + 1)]
    /\ UNCHANGED <<watched, dirty, call, initial, issued>>
    /\ UNCHANGED <<now, product_creation_queue, prodw, sweeper, outbox, removed,
                   nested, faults>>
    /\ UNCHANGED <<commandVars, queueVars, cooldownVars, loopVars, traceVars, lockVars>>

\* the message about the failure is out, or could not be sent: the handler
\* returns and the cycle ends
ImageFailed ==
    /\ imgw.pc = "failing"
    /\ followup.pc = "done"
    /\ imgw' = IdleWorker
    /\ followup' = IdleFollowup
    /\ UNCHANGED <<now, product_creation_queue, prodw, sweeper, outbox, removed,
                   nested, faults>>
    /\ UNCHANGED <<commandVars, outsideCog>>

\* _send_followup has returned: under interaction_cache_lock the entry is
\* read again and, when it is there, the product item is enqueued (the
\* queue takes its own lock inside the registry lock).  Without an entry
\* the handler logs and returns; QueueFullError goes to the except branch
ImageChain ==
    /\ imgw.pc = "delivering"
    /\ followup.pc = "done"
    /\ IF \E e \in interaction_cache : e.id = imgw.id
       THEN /\ nested' = nested \cup {<<"interaction_cache_lock", "product_creation_queue._lock">>}
            /\ IF EnqueueAccepts(product_creation_queue)
               THEN /\ product_creation_queue' = Enqueued(product_creation_queue, imgw.id)
                    /\ imgw' = IdleWorker
                    /\ followup' = IdleFollowup
                    /\ faults' = faults
               ELSE /\ product_creation_queue' = product_creation_queue
                    /\ imgw' = [imgw EXCEPT !.pc = "failing"]
                    /\ followup' = FollowupCall(imgw.id, "unexpected_error")
                    /\ faults' = faults \cup {imgw.id}
       ELSE /\ imgw' = IdleWorker
            /\ followup' = IdleFollowup
            /\ UNCHANGED <<product_creation_queue, nested, faults>>
    /\ UNCHANGED <<now, prodw, sweeper, outbox, removed>>
    /\ UNCHANGED <<commandVars, outsideCog>>

\* item = await self.product_creation_queue.dequeue();
\* response = await self.product_handler.add_product_to_shopify(...)
ProductDequeue ==
    /\ prodw.pc = "waiting"
    /\ DequeueAvailable(product_creation_queue)
    /\ prodw' = [IdleWorker EXCEPT !.pc = "creating",
                                   !.id = DequeueItem(product_creation_queue),
                                   !.image_url = TRUE]
    /\ product_creation_queue' = Dequeued(product_creation_queue)
    /\ UNCHANGED <<now, imgw, followup, sweeper, outbox, removed, nested, faults>>
    /\ UNCHANGED <<commandVars, outsideCog>>

\* a mutant: the handler leaves the entry to the sweep
ProductCreated_KeepsEntry(outcome) ==
    /\ prodw.pc = "creating"
    /\ prodw' = IdleWorker
    /\ faults' = IF outcome = "created" THEN faults ELSE faults \cup {prodw.id}
    /\ UNCHANGED <<interaction_cache, removed>>
    /\ UNCHANGED <<image_generation_queue, cmd, nextId>>
    /\ UNCHANGED <<now, product_creation_queue, imgw, followup, sweeper, outbox, nested>>
    /\ UNCHANGED outsideCog

\* Shopify has answered or the call has raised; finally: under the lock
\* the entry is deleted if it is there.  Nothing is sent to the user
ProductCreated(outcome) ==
    /\ prodw.pc = "creating"
    /\ LET gone == {e \in interaction_cache : e.id = prodw.id} IN
          /\ interaction_cache' = interaction_cache \ gone
          /\ removed' = Deleted(gone, "consumer")
    /\ prodw' = IdleWorker
    /\ faults' = IF outcome = "created" THEN faults ELSE faults \cup {prodw.id}
    /\ UNCHANGED <<image_generation_queue, cmd, nextId>>
    /\ UNCHANGED <<now, product_creation_queue, imgw, followup, sweeper, outbox, nested>>
    /\ UNCHANGED outsideCog

\* /dream invocations while the consumers run
MaxJobs == 1

\* times the clock is advanced while the consumers run
MaxLapses == 1

\* seconds by which the clock is advanced at once while requests are
\* processed: every request older than that is due for the sweep
PipelineElapses == {SWEEP_PERIOD + 1}

\* a user without credits: the key is missing or holds 0
InitPipelineLedger ==
    /\ credits \in [Users -> {NoKey, Stored(0)}]
    /\ \A u \in Users \ {Dreamer} : credits[u] = NoKey
    /\ initial = [u \in Users |-> IntOf(credits[u])]
    /\ watched = [p \in Procs |-> {}]
    /\ dirty = [p \in Procs |-> FALSE]
    /\ call = [p \in Procs |-> IdleCall]
    /\ issued = 0

\* the steps of the two consumer loops and of the delivery
NextConsumers ==
    \/ ImageDequeue
    \/ \E o \in ImageOutcomes : ImageGenerated(o)
    \/ \E o \in Tier1Outcomes : FollowupTier1(o)
    \/ \E o \in Tier2Outcomes : FollowupTier2(o)
    \/ \E o \in Tier3Outcomes : FollowupTier3(o)
    \/ ImageChain
    \/ ImageFailed
    \/ ProductDequeue
    \/ \E o \in ProductOutcomes : ProductCreated(o)

\* one user issues the /claim of the day and then /dream, one command after
\* the other, while the consumers, the clock and the sweep run
NextPipeline ==
    \/ NextConsumers
    \/ \E d \in PipelineElapses : ticks < MaxLapses /\ Elapse(d)
    \/ Sweep
    \/ \E p \in DreamTasks :
        \/ cmd[p].pc = "idle" /\ issued = 0 /\ ClaimInvoke(p, Dreamer)
        \/ ClaimChecked(p)
        \/ ClaimAdded(p)
        \/ ClaimSet(p)
        \/ ClaimReturn(p)
        \/ CooldownOperation(p)
        \/ claimcmd[p].pc = "idle" /\ nextId <= MaxJobs /\ DreamInvoke(p, Dreamer)
        \/ DreamChecked(p)
        \/ DreamDeducted(p)
        \/ DreamRemaining(p)
        \/ DreamEnqueue(p)
        \/ DreamReturn(p)
        \/ ExecuteRedisOperation(p)
        \/ DeductWatch(p)
        \/ DeductGet(p)
        \/ DeductExecute(p)

\* tasks.loop starts the next cycle of each consumer; the awaits of the
\* handlers and of the commands return
PipelineFairness ==
    /\ WF_vars(NextConsumers)
    /\ WF_vars(\E p \in DreamTasks : DreamReturn(p))

----------------------------------------------------------------------------
(* The registry while the sweep task runs *)

\* asyncio.sleep(900) of the sweep task comes to its end while entries wait
SleepEnds ==
    \E d \in PipelineElapses :
        /\ interaction_cache # {}
        /\ now < sweeper.wake
        /\ Elapse(d)

\* /claim and /dream, the two consumers and the sweep task, whose sleep ends
\* whenever entries are waiting
NextRegistry ==
    \/ NextConsumers
    \/ SleepEnds
    \/ Sweep
    \/ \E p \in DreamTasks :
        \/ cmd[p].pc = "idle" /\ issued = 0 /\ ClaimInvoke(p, Dreamer)
        \/ ClaimChecked(p)
        \/ ClaimAdded(p)
        \/ ClaimSet(p)
        \/ ClaimReturn(p)
        \/ CooldownOperation(p)
        \/ claimcmd[p].pc = "idle" /\ nextId <= MaxJobs /\ DreamInvoke(p, Dreamer)
        \/ DreamChecked(p)
        \/ DreamDeducted(p)
        \/ DreamRemaining(p)
        \/ DreamEnqueue(p)
        \/ DreamReturn(p)
        \/ ExecuteRedisOperation(p)
        \/ DeductWatch(p)
        \/ DeductGet(p)
        \/ DeductExecute(p)

\* the consumers go on, the sleep of the sweep task ends and the sweep runs
RegistryFairness ==
    /\ PipelineFairness
    /\ WF_vars(SleepEnds)
    /\ WF_vars(Sweep)

----------------------------------------------------------------------------
(* The product consumer falls behind: add_product_to_shopify does not *)
(* answer while the images keep coming *)

\* /dream invocations in one behaviour: enough to fill the product queue
\* and go on
MaxBacklog == PRODUCT_QUEUE_MAX_SIZE + 1

\* the dreamer has a credit for every slot of the product queue and one more
InitBacklogLedger ==
    /\ credits = [u \in Users |-> IF u = Dreamer THEN Stored(MaxBacklog) ELSE NoKey]
    /\ initial = [u \in Users |-> IntOf(credits[u])]
    /\ watched = [p \in Procs |-> {}]
    /\ dirty = [p \in Procs |-> FALSE]
    /\ call = [p \in Procs |-> IdleCall]
    /\ issued = 0

\* the user asks for the next image when the last one has arrived; every
\* image is generated and delivered through the interaction; the product
\* consumer waits for Shopify all along
NextBacklog ==
    \/ ImageDequeue
    \/ ImageGenerated("url")
    \/ FollowupTier1("sent")
    \/ ImageChain
    \/ ImageFailed
    \/ \E p \in DreamTasks :
        \/ /\ nextId <= MaxBacklog
           /\ imgw.pc = "waiting"
           /\ ~DequeueAvailable(image_generation_queue)
           /\ DreamInvoke(p, Dreamer)
        \/ DreamChecked(p)
        \/ DreamDeducted(p)
        \/ DreamRemaining(p)
        \/ DreamEnqueue(p)
        \/ DreamReturn(p)
        \/ ExecuteRedisOperation(p)
        \/ DeductWatch(p)
        \/ DeductGet(p)
        \/ DeductExecute(p)

----------------------------------------------------------------------------
(* A consumer loop: process_image_generation_queue or
   process_product_creation_queue, run every second by discord.ext.tasks,
   with the producers of its queue and cog_unload *)

\* items the producers offer in one behaviour
MaxItems == 4

\* the loop task: where it is, the item of its current or last cycle, and
\* history: how its last cycle ended, the items whose handler raised, and
\* whether cancel() was called
IdleLoop ==
    [pc |-> "waiting", item |-> 0, last |-> "none", raised |-> {},
     cancelled |-> FALSE]

InitLoop ==
    /\ loop = IdleLoop
    /\ handled = <<>>

\* a mutant: the task could also be interrupted with the item in its hands
SuspensionPoints_AfterDequeue == {"waiting", "dequeued", "handling"}

\* where the task is suspended and a CancelledError can reach it: in the
\* sleeps between two cycles and at the awaits inside the handler.  dequeue
\* takes an uncontended lock and returns, and the handler is entered, without
\* yielding to the event loop
SuspensionPoints == {"waiting", "handling"}

\* a producer enqueues a new item; QueueFullError leaves the queue as it is
LoopEnqueue ==
    /\ queue.total_enqueued < MaxItems
    /\ IF EnqueueAccepts(queue)
       THEN queue' = Enqueued(queue, queue.total_enqueued + 1)
       ELSE queue' = queue
    /\ UNCHANGED <<consumer, qlog, loopVars>>
    /\ UNCHANGED outsideQueue

\* a cycle starts: item = await self.image_generation_queue.dequeue();
\* QueueEmptyError: sleep 0.1 s and wait for the next cycle
LoopDequeue ==
    /\ loop.pc = "waiting"
    /\ IF DequeueAvailable(queue)
       THEN /\ queue' = Dequeued(queue)
            /\ loop' = [loop EXCEPT !.pc = "dequeued", !.item = DequeueItem(queue)]
       ELSE /\ queue' = queue
            /\ loop' = [loop EXCEPT !.last = "empty"]
    /\ UNCHANGED <<consumer, qlog, handled>>
    /\ UNCHANGED <<ledgerVars, dreamVars, cooldownVars, traceVars, lockVars>>

\* await self._process_image_generation(item): the handler starts running
\* and goes up to its first await
LoopInvoke ==
    /\ loop.pc = "dequeued"
    /\ loop' = [loop EXCEPT !.pc = "handling"]
    /\ handled' = Append(handled, loop.item)
    /\ UNCHANGED <<queue, consumer, qlog>>
    /\ UNCHANGED <<ledgerVars, dreamVars, cooldownVars, traceVars, lockVars>>

\* the handler returns: the cycle is over
LoopHandlerReturns ==
    /\ loop.pc = "handling"
    /\ loop' = [loop EXCEPT !.pc = "waiting", !.last = "returned"]
    /\ UNCHANGED <<queue, consumer, qlog, handled>>
    /\ UNCHANGED <<ledgerVars, dreamVars, cooldownVars, traceVars, lockVars>>

\* a mutant: an exception of the handler ends the loop
LoopHandlerRaises_Stops ==
    /\ loop.pc = "handling"
    /\ loop' = [loop EXCEPT !.pc = "stopped", !.last = "raised",
                            !.raised = @ \cup {loop.item}]
    /\ UNCHANGED <<queue, consumer, qlog, handled>>
    /\ UNCHANGED <<ledgerVars, dreamVars, cooldownVars, traceVars, lockVars>>

\* the handler raises: `except Exception` logs the error and sleeps 1 s;
\* the next cycle takes the next item
LoopHandlerRaises ==
    /\ loop.pc = "handling"
    /\ loop' = [loop EXCEPT !.pc = "waiting", !.last = "raised",
                            !.raised = @ \cup {loop.item}]
    /\ UNCHANGED <<queue, consumer, qlog, handled>>
    /\ UNCHANGED <<ledgerVars, dreamVars, cooldownVars, traceVars, lockVars>>

\* cog_unload: process_image_generation_queue.cancel(), then the queue is
\* closed.  The CancelledError reaches the task where it is suspended.
\* Between two cycles it ends the task.  Inside the handler it passes the
\* handler's `except Exception` and is caught by the loop body's
\* `except asyncio.CancelledError`, which logs it and returns: whether
\* discord.ext.tasks then runs another cycle is not in this repository, so
\* both outcomes are allowed
LoopCancel ==
    /\ ~loop.cancelled
    /\ loop.pc \in SuspensionPoints
    /\ \E after \in {"waiting", "stopped"} :
          /\ loop.pc # "handling" => after = "stopped"
          /\ loop' = [loop EXCEPT !.pc = after, !.cancelled = TRUE,
                                  !.last = IF loop.pc = "handling"
                                           THEN "cancelled_in_handler"
                                           ELSE "cancelled"]
    /\ queue' = Closed(queue)
    /\ UNCHANGED <<consumer, qlog, handled>>
    /\ UNCHANGED <<ledgerVars, dreamVars, cooldownVars, traceVars, lockVars>>

\* the loop running, never cancelled
NextLoopRun ==
    \/ LoopEnqueue
    \/ LoopDequeue
    \/ LoopInvoke
    \/ LoopHandlerReturns
    \/ LoopHandlerRaises

\* the loop and cog_unload
NextLoop ==
    \/ LoopEnqueue
    \/ LoopDequeue
    \/ LoopInvoke
    \/ LoopHandlerReturns
    \/ LoopHandlerRaises
    \/ LoopCancel

\* tasks.loop(seconds=1.0) starts a cycle every second, the handler is
\* entered as soon as dequeue returns, and every handler invocation ends
LoopFairness ==
    /\ WF_vars(LoopDequeue)
    /\ WF_vars(LoopInvoke)
    /\ WF_vars(LoopHandlerReturns \/ LoopHandlerRaises)

----------------------------------------------------------------------------
(* One task calling add_credit, deduct_credit and get_credits in sequence *)

\* the task and the user whose balance it works on: nobody else writes
SeqTask == 1

\* the amounts it adds and deducts
SeqAmounts == Amounts \cup {DAILY_CREDITS}

InitTrace == trace = <<>>

\* where a call of operation o starts
StartOf(o) == IF o = "deduct_credit" THEN "watch" ELSE "op"

\* the task calls o(u, a); the trace notes the stored value at that moment
SeqCall(o, u, a) ==
    /\ call[SeqTask].pc = "idle"
    /\ Len(trace) < MaxCalls
    /\ call' = [call EXCEPT ![SeqTask] = NewCall(o, u, u, a, StartOf(o))]
    /\ trace' = Append(trace, [op |-> o, user |-> u, amount |-> a,
                               before |-> credits[u], after |-> credits[u],
                               returned |-> FALSE, ret |-> FALSE, value |-> 0,
                               cause |-> "none"])
    /\ UNCHANGED <<credits, watched, dirty, initial, issued>>
    /\ UNCHANGED <<queueVars, dreamVars, cooldownVars, loopVars, lockVars>>

\* the call returns to the task; the trace notes what it returned and the
\* stored value at that moment
SeqReturn ==
    /\ call[SeqTask].pc = "done"
    /\ trace # <<>>
    /\ ~trace[Len(trace)].returned
    /\ trace' = [trace EXCEPT ![Len(trace)] =
                    [@ EXCEPT !.after = credits[call[SeqTask].user],
                              !.returned = TRUE,
                              !.ret = call[SeqTask].ret,
                              !.value = call[SeqTask].value,
                              !.cause = call[SeqTask].cause]]
    /\ call' = [call EXCEPT ![SeqTask] = IdleCall]
    /\ UNCHANGED <<credits, watched, dirty, initial, issued>>
    /\ UNCHANGED <<queueVars, dreamVars, cooldownVars, loopVars, lockVars>>

NextSequence ==
    \/ \E a \in SeqAmounts : SeqCall("add_credit", Contended, a)
    \/ \E a \in SeqAmounts : SeqCall("deduct_credit", Contended, a)
    \/ SeqCall("get_credits", Contended, 0)
    \/ SeqReturn
    \/ ExecuteRedisOperation(SeqTask)
    \/ ExecuteRedisOperationFails(SeqTask)
    \/ DeductWatch(SeqTask)
    \/ DeductGet(SeqTask)
    \/ DeductExecute(SeqTask)
    \/ DeductError(SeqTask)

----------------------------------------------------------------------------
(* Specifications *)

----------------------------------------------------------------------------
(* The locks of the cog and of its two queues, operation by operation *)

RegistryLock == "interaction_cache_lock"
ImageQueueLock == "image_generation_queue._lock"
ProductQueueLock == "product_creation_queue._lock"

Locks == {RegistryLock, ImageQueueLock, ProductQueueLock}
QueueLocks == {ImageQueueLock, ProductQueueLock}

\* the coroutines that take them
LockTasks ==
    {"generate_product", "process_image_generation_queue",
     "process_product_creation_queue", "_cleanup_interaction_cache"}

NoTask == "nobody"

Acquire(l) == [op |-> "acquire", lock |-> l]
Release(l) == [op |-> "release", lock |-> l]
Raises(l) == [op |-> "raise", lock |-> l]

\* async with l: body.  __aexit__ releases l whether body returns or raises
Under(l, body) == <<Acquire(l)>> \o body \o <<Release(l)>>

\* enqueue and dequeue: the checks and the deque operation under the lock
\* of the queue; QueueFullError and QueueEmptyError are raised inside it
QueueOperation(l) == Under(l, <<>>)
QueueOperationRaises(l) == Under(l, <<Raises(l)>>)

\* _send_followup reads the entry under the registry lock and sends after
\* the lock is released
FollowupLookup == Under(RegistryLock, <<>>)

\* generate_product: the entry is stored under the registry lock, then the
\* request is enqueued
GenerateRuns ==
    {Under(RegistryLock, <<>>) \o e :
        e \in {QueueOperation(ImageQueueLock), QueueOperationRaises(ImageQueueLock)}}

\* the image consumer: dequeue; no item, or the handler.  The handler sends
\* the failure message, or the embed and then, under the registry lock,
\* finds no entry, or enqueues the product item, or the enqueue raises and
\* the except branch sends its message
ImageRuns ==
    {QueueOperationRaises(ImageQueueLock)} \cup
    {QueueOperation(ImageQueueLock) \o h :
        h \in {FollowupLookup,
               FollowupLookup \o Under(RegistryLock, <<>>),
               FollowupLookup \o Under(RegistryLock, QueueOperation(ProductQueueLock)),
               FollowupLookup \o Under(RegistryLock, QueueOperationRaises(ProductQueueLock))
                   \o FollowupLookup}}

\* a mutant: the handler of the product consumer runs inside the lock of
\* its queue
ProductRuns_InsideQueueLock ==
    {QueueOperationRaises(ProductQueueLock),
     Under(ProductQueueLock, Under(RegistryLock, <<>>))}

\* the product consumer: dequeue; no item, or the handler, whose finally
\* block deletes the entry under the registry lock
ProductRuns ==
    {QueueOperationRaises(ProductQueueLock),
     QueueOperation(ProductQueueLock) \o Under(RegistryLock, <<>>)}

\* one round of the sweep
SweepRuns == {Under(RegistryLock, <<>>)}

RunsOf(t) ==
    CASE t = "generate_product" -> GenerateRuns
      [] t = "process_image_generation_queue" -> ImageRuns
      [] t = "process_product_creation_queue" -> ProductRuns
      [] OTHER -> SweepRuns

AtRest == [todo |-> <<>>, raised |-> FALSE]

InitLocks ==
    /\ owner = [l \in Locks |-> NoTask]
    /\ run = [t \in LockTasks |-> AtRest]

\* the next lock operation of task t
Pending(t, o) == run[t].todo # <<>> /\ Head(run[t].todo).op = o

Advanced(t) == [run EXCEPT ![t].todo = Tail(@)]

\* a command is invoked, a loop starts its next cycle, the sleep of the
\* sweep ends
RunStarts(t) ==
    /\ run[t].todo = <<>>
    /\ \E r \in RunsOf(t) : run' = [run EXCEPT ![t] = [todo |-> r, raised |-> FALSE]]
    /\ UNCHANGED owner
    /\ UNCHANGED <<ledgerVars, queueVars, dreamVars, cooldownVars, loopVars, traceVars>>

\* await lock.acquire() returns once nobody holds the lock
LockAcquire(t) ==
    /\ Pending(t, "acquire")
    /\ owner[Head(run[t].todo).lock] = NoTask
    /\ owner' = [owner EXCEPT ![Head(run[t].todo).lock] = t]
    /\ run' = Advanced(t)
    /\ UNCHANGED <<ledgerVars, queueVars, dreamVars, cooldownVars, loopVars, traceVars>>

\* lock.release()
LockRelease(t) ==
    /\ Pending(t, "release")
    /\ owner[Head(run[t].todo).lock] = t
    /\ owner' = [owner EXCEPT ![Head(run[t].todo).lock] = NoTask]
    /\ run' = Advanced(t)
    /\ UNCHANGED <<ledgerVars, queueVars, dreamVars, cooldownVars, loopVars, traceVars>>

\* the operation under the lock raises; the lock is still held when the
\* exception reaches __aexit__
LockedRaise(t) ==
    /\ Pending(t, "raise")
    /\ run' = [run EXCEPT ![t].todo = Tail(@), ![t].raised = TRUE]
    /\ UNCHANGED owner
    /\ UNCHANGED <<ledgerVars, queueVars, dreamVars, cooldownVars, loopVars, traceVars>>

\* the command, the two consumers and the sweep, interleaved at every lock
\* operation
NextLocks ==
    \E t \in LockTasks :
        \/ RunStarts(t)
        \/ LockAcquire(t)
        \/ LockRelease(t)
        \/ LockedRaise(t)

\* asyncio.Lock wakes its waiters in the order they came; a task that is
\* not waiting goes on
LockFairness ==
    \A t \in LockTasks :
        /\ SF_vars(LockAcquire(t))
        /\ WF_vars(LockRelease(t))
        /\ WF_vars(LockedRaise(t))

\* the parts of the program a specification does not run
InitOthers == InitCooldown /\ InitLoop /\ InitTrace /\ InitLocks

\* concurrent deduct_credit calls, one per client, against starting balances
InitDeductSystem ==
    InitDeduct /\ InitQueue /\ InitDream /\ InitOthers

SpecDeduct ==
    /\ InitDeductSystem
    /\ [][NextDeduct]_vars

\* all ledger operations
InitLedgerSystem ==
    InitLedger /\ InitQueue /\ InitDream /\ InitOthers

SpecLedger ==
    /\ InitLedgerSystem
    /\ [][NextLedger]_vars

\* concurrent transfer_credits calls, one per client
InitTransferSystem ==
    InitTransfer /\ InitQueue /\ InitDream /\ InitOthers

SpecTransfer ==
    /\ InitTransferSystem
    /\ [][NextTransfer]_vars

\* the store of a ledger nobody has used
InitFreshLedger ==
    /\ InitLedger
    /\ \A u \in Users : credits[u] = NoKey

\* one InMemoryQueue, its producers, its callers of dequeue and a consumer
InitQueueSystem ==
    InitFreshLedger /\ InitQueue /\ InitDream /\ InitOthers

SpecQueue ==
    /\ InitQueueSystem
    /\ [][NextQueue]_vars

\* /claim and the cooldown operations, called by two tasks for one user
\* who never used the ledger, while time passes
InitClaimSystem ==
    /\ InitFreshLedger /\ InitQueue /\ InitDream
    /\ InitCooldown /\ InitLoop /\ InitTrace /\ InitLocks

SpecClaim ==
    /\ InitClaimSystem
    /\ [][NextClaim]_vars

\* one task, one user with any starting balance, calls in sequence
InitSequenceSystem ==
    /\ InitDeduct /\ InitQueue /\ InitDream
    /\ InitCooldown /\ InitLoop /\ InitTrace /\ InitLocks

SpecSequence ==
    /\ InitSequenceSystem
    /\ [][NextSequence]_vars

\* a consumer loop, its producers and cog_unload
InitLoopSystem ==
    /\ InitFreshLedger /\ InitQueue /\ InitDream
    /\ InitCooldown /\ InitLoop /\ InitTrace /\ InitLocks

SpecLoop ==
    /\ InitLoopSystem
    /\ [][NextLoop]_vars

\* a consumer loop that is never cancelled and whose handlers terminate
InitLoopRunSystem ==
    /\ InitFreshLedger /\ InitQueue /\ InitDream
    /\ InitCooldown /\ InitLoop /\ InitTrace /\ InitLocks

SpecLoopRun ==
    /\ InitLoopRunSystem
    /\ [][NextLoopRun]_vars
    /\ LoopFairness

\* /dream, the clock and the sweep
InitSweepSystem ==
    /\ InitDreamLedger /\ InitQueue /\ InitDream
    /\ InitCooldown /\ InitLoop /\ InitTrace /\ InitLocks

SpecSweep ==
    /\ InitSweepSystem
    /\ [][NextSweep]_vars

\* the operations of one queue, the read operations included
InitQueueApiSystem ==
    InitFreshLedger /\ InitQueue /\ InitDream /\ InitOthers

SpecQueueApi ==
    /\ InitQueueApiSystem
    /\ [][NextQueueApi]_vars

\* process_queue as the only consumer of a queue
InitProcessQueueSystem ==
    InitFreshLedger /\ InitQueue /\ InitDream /\ InitOthers

SpecProcessQueue ==
    /\ InitProcessQueueSystem
    /\ [][NextProcessQueue]_vars
    /\ ProcessQueueFairness

\* concurrent /dream invocations of one user with any starting balance
InitDreamRaceSystem ==
    InitDeduct /\ InitQueue /\ InitDream /\ InitOthers

SpecDreamRace ==
    /\ InitDreamRaceSystem
    /\ [][NextDreamRace]_vars

\* the operations of one queue, clear included
InitQueueClearSystem ==
    InitFreshLedger /\ InitQueue /\ InitDream /\ InitOthers

SpecQueueClear ==
    /\ InitQueueClearSystem
    /\ [][NextQueueClear]_vars

\* one task deducts and transfers while another keeps setting the balance
InitConflictSystem ==
    InitDeduct /\ InitQueue /\ InitDream /\ InitOthers

SpecConflict ==
    /\ InitConflictSystem
    /\ [][NextConflict]_vars
    /\ ConflictFairness

\* /dream and the image consumer while the product consumer is stuck
InitBacklogSystem ==
    /\ InitBacklogLedger /\ InitQueue /\ InitDream
    /\ InitCooldown /\ InitLoop /\ InitTrace /\ InitLocks

SpecBacklog ==
    /\ InitBacklogSystem
    /\ [][NextBacklog]_vars

\* /claim, /dream, the two consumers, the clock and the sweep
InitPipelineSystem ==
    /\ InitPipelineLedger /\ InitQueue /\ InitDream
    /\ InitCooldown /\ InitLoop /\ InitTrace /\ InitLocks

SpecPipeline ==
    /\ InitPipelineSystem
    /\ [][NextPipeline]_vars
    /\ PipelineFairness

\* the pipeline with a sweep task that runs for as long as entries wait
InitRegistrySystem ==
    /\ InitPipelineLedger /\ InitQueue /\ InitDream
    /\ InitOthers

SpecRegistry ==
    /\ InitRegistrySystem
    /\ [][NextRegistry]_vars
    /\ RegistryFairness

\* the lock operations of the cog's tasks
InitLocksSystem ==
    /\ InitFreshLedger /\ InitQueue /\ InitDream
    /\ InitOthers

SpecLocks ==
    /\ InitLocksSystem
    /\ [][NextLocks]_vars
    /\ LockFairness

\* /dream invoked again and again while no consumer drains the queue and
\* the store answers every command
InitDreamSystem ==
    InitDreamLedger /\ InitQueue /\ InitDream /\ InitOthers

SpecDream ==
    /\ InitDreamSystem
    /\ [][NextDream]_vars

----------------------------------------------------------------------------
(* Properties of the credit ledger *)

DeductCalls(u) ==
    {p \in Procs : call[p].op = "deduct_credit" /\ call[p].user = u}

SucceededDeducts(u) ==
    {p \in DeductCalls(u) : call[p].pc = "done" /\ call[p].ret}

\* C1: whatever the interleaving of concurrent deduct_credit(u, a) calls
\* against a starting balance B, at most floor(B / a) of them return True
\* and the stored balance of u is never negative.
C1_DeductsBoundedByBalance ==
    \A u \in Users :
        /\ Balance(u) >= 0
        /\ \A a \in Amounts :
              (\A p \in DeductCalls(u) : call[p].amount = a)
                  => Cardinality(SucceededDeducts(u)) <= initial[u] \div a

\* every affordable deduction succeeded while a call whose EXEC was refused
\* (it read a sufficient balance before) is retrying from WATCH
C1_Witness ==
    \E a \in Amounts :
        /\ \A p \in DeductCalls(Contended) : call[p].amount = a
        /\ Cardinality(SucceededDeducts(Contended)) = initial[Contended] \div a
        /\ SucceededDeducts(Contended) # {}
        /\ \E p \in DeductCalls(Contended) :
              call[p].pc = "watch" /\ call[p].current >= a

\* C8: the balance of every user is >= 0 in every state reachable by
\* add_credit, deduct_credit, transfer_credits, set_credits, reset_credits
\* and batch_update_credits.
C8_BalanceNeverNegative == \A u \in Users : Balance(u) >= 0

\* C9: two concurrent deduct_credit(u, 1) calls against a balance of 1, the
\* store answering every command: exactly one returns True, the other
\* returns False, and the balance ends at 0.
C9_TwoDeductsOfLastCredit ==
    LET calls == DeductCalls(Contended) IN
    (/\ initial[Contended] = 1
     /\ Cardinality(calls) = 2
     /\ \A p \in calls :
           call[p].amount = 1 /\ call[p].pc = "done" /\ call[p].cause # "error")
    => /\ Cardinality({p \in calls : call[p].ret}) = 1
       /\ Cardinality({p \in calls : ~call[p].ret}) = 1
       /\ Balance(Contended) = 0

\* both calls have returned, one of them refused for insufficient credits
C9_Witness ==
    LET calls == DeductCalls(Contended) IN
    /\ initial[Contended] = 1
    /\ Cardinality(calls) = 2
    /\ \A p \in calls : call[p].amount = 1 /\ call[p].pc = "done"
    /\ \E p \in calls : call[p].cause = "insufficient"
    /\ \E p \in calls : call[p].ret

\* C10: a step of transfer_credits(f, t, a) changes the store only when the
\* call returns True: then balance(f) >= a held when the write was applied
\* and the debit of f and the credit of t are applied in that one step; a
\* call that returns False for insufficient credits read balance(f) < a and
\* no step of a call that returns False changes either balance.
C10_TransferIsAtomic ==
    [][\A p \in Procs :
        (call[p].op = "transfer_credits" /\ call'[p] # call[p]) =>
            LET f == call[p].user
                t == call[p].to
                a == call[p].amount
            IN  IF call'[p].pc = "done" /\ call'[p].ret
                THEN /\ Balance(f) >= a
                     /\ credits'[f] = Stored(Balance(f) - (IF f = t THEN 0 ELSE a))
                     /\ credits'[t] = Stored(Balance(t) + (IF f = t THEN 0 ELSE a))
                     /\ \A u \in Users \ {f, t} : credits'[u] = credits[u]
                ELSE /\ credits' = credits
                     /\ (call'[p].pc = "done" /\ call'[p].cause = "insufficient")
                            => Balance(f) < a
      ]_ledgerVars

\* one transfer went through between two users and a concurrent transfer
\* from the same sender was refused for insufficient credits
C10_Witness ==
    \E p \in Procs, q \in Procs :
        /\ call[p].op = "transfer_credits" /\ call[p].pc = "done" /\ call[p].ret
        /\ call[p].user # call[p].to
        /\ Balance(call[p].user) = initial[call[p].user] - call[p].amount
        /\ Balance(call[p].to) = initial[call[p].to] + call[p].amount
        /\ call[q].op = "transfer_credits" /\ call[q].pc = "done"
        /\ call[q].cause = "insufficient" /\ call[q].user = call[p].user

----------------------------------------------------------------------------
(* Properties of the /dream command *)

\* C2: a /dream that is rejected with the too-many-requests message (the
\* image-generation queue was full) leaves the user's balance as it was
\* before the command.
C2_RejectedDreamNotDebited ==
    \A p \in Procs :
        (cmd[p].pc = "done" /\ cmd[p].reply = "too_many_requests")
            => Balance(cmd[p].user) = cmd[p].before

\* the work items the image-generation queue holds
Buffered == {image_generation_queue.items[i] : i \in 1..Len(image_generation_queue.items)}

\* C24: /dream invoked by a user whose balance is 0 ends with "not enough
\* credits"; no item is enqueued, no entry is cached, the balance stays 0.
C24_NoCreditsNoRequest ==
    \A p \in DreamTasks :
        (cmd[p].pc = "done" /\ cmd[p].before = 0) =>
            /\ cmd[p].reply = "not_enough_credits"
            /\ cmd[p].id \notin Buffered
            /\ image_generation_queue.total_enqueued = 0
            /\ \A e \in interaction_cache : e.id # cmd[p].id
            /\ Balance(cmd[p].user) = 0

\* a user whose stored balance is 0 has invoked /dream and has the answer
C24_Witness ==
    \E p \in DreamTasks :
        /\ cmd[p].pc = "done" /\ cmd[p].before = 0
        /\ credits[cmd[p].user] = Stored(0)

\* C26: when /dream has completed, the cache holds an entry for the request
\* if and only if the image-generation queue accepted its work item.
C26_EntryIffItemAccepted ==
    \A p \in DreamTasks :
        cmd[p].pc = "done" =>
            ((\E e \in interaction_cache : e.id = cmd[p].id)
                <=> cmd[p].reply = "queued")

----------------------------------------------------------------------------
(* Properties of InMemoryQueue *)

\* the items of the calls of qlog that satisfy Test, in call order
ItemsLogged(Test(_)) ==
    LET picked == SelectSeq(qlog, Test)
    IN  [i \in 1..Len(picked) |-> picked[i].item]

IsAccepted(e) == e.op = "enqueue" /\ e.result = "ok"
IsDelivered(e) == e.op = "dequeue" /\ e.result = "ok"

Accepted == ItemsLogged(IsAccepted)
Delivered == ItemsLogged(IsDelivered)

Range(seq) == {seq[i] : i \in DOMAIN seq}

\* C3: an accepted item is returned by dequeue at most once, so it is
\* handed to at most one handler invocation, and once returned it is never
\* in the queue again, also after its handler raised.
C3_DeliveredAtMostOnce ==
    /\ \A i, j \in DOMAIN Delivered : Delivered[i] = Delivered[j] => i = j
    /\ Range(Delivered) \subseteq Range(Accepted)
    /\ Range(Delivered) \cap Range(queue.items) = {}
    /\ consumer.pc = "handling" => consumer.item \in Range(Delivered)

\* the handler of an item raised; the item is not buffered; the consumer
\* is idle and a later accepted item is still buffered
C3_Witness ==
    /\ consumer.pc = "idle" /\ consumer.last = "raised"
    /\ consumer.item \in Range(Delivered)
    /\ queue.items # <<>>

\* C4: dequeue returns the accepted items in the order in which their
\* enqueue calls succeeded.
C4_Fifo ==
    /\ Len(Delivered) <= Len(Accepted)
    /\ \A i \in DOMAIN Delivered : Delivered[i] = Accepted[i]

\* two items were dequeued and an enqueue succeeded between the dequeues
C4_Witness ==
    \E i, j, k \in DOMAIN qlog :
        /\ i < j /\ j < k
        /\ IsDelivered(qlog[i]) /\ IsAccepted(qlog[j]) /\ IsDelivered(qlog[k])
        /\ qlog[k].item = qlog[j].item

FirstCallsAre(o, from, to) ==
    \A i \in from..to : i \in DOMAIN qlog /\ qlog[i].op = o

\* C5: on a fresh queue of capacity N, of N + 1 consecutive enqueue calls
\* the first N succeed and the last raises QueueFullError; of N + 1
\* consecutive dequeue calls that follow, the first N succeed and the last
\* raises QueueEmptyError.
C5_FillThenDrain ==
    LET N == queue.max_size IN
    /\ \A i \in 1..(N + 1) :
          FirstCallsAre("enqueue", 1, i) =>
              qlog[i].result = (IF i <= N THEN "ok" ELSE "QueueFullError")
    /\ \A i \in (N + 2)..(2 * N + 2) :
          (FirstCallsAre("enqueue", 1, N + 1) /\ FirstCallsAre("dequeue", N + 2, i)) =>
              qlog[i].result = (IF i <= 2 * N + 1 THEN "ok" ELSE "QueueEmptyError")

\* the queue was filled, overfilled, drained and dequeued once more
C5_Witness ==
    /\ FirstCallsAre("enqueue", 1, queue.max_size + 1)
    /\ FirstCallsAre("dequeue", queue.max_size + 2, 2 * queue.max_size + 2)

\* C6: the number of buffered items is between 0 and the capacity, and no
\* accepted item is dropped from the buffer to make room: every accepted
\* item is still buffered or was returned by dequeue.
C6_BoundedWithoutEviction ==
    /\ Len(queue.items) >= 0
    /\ Len(queue.items) <= queue.max_size
    /\ Range(Accepted) = Range(Delivered) \cup Range(queue.items)
    /\ Len(Accepted) = Len(Delivered) + Len(queue.items)

\* the queue is full and the last call, an enqueue, was refused
C6_Witness ==
    /\ Len(queue.items) = queue.max_size
    /\ qlog # <<>>
    /\ qlog[Len(qlog)].op = "enqueue"
    /\ qlog[Len(qlog)].result = "QueueFullError"

\* C7: once the queue is closed it stays closed, every enqueue raises
\* QueueFullError and leaves the buffer alone, and dequeue returns the head
\* of what is buffered until the buffer is empty, and only then raises
\* QueueEmptyError.
C7_ClosedQueueDrains ==
    [][queue.closed =>
        /\ queue'.closed
        /\ qlog' # qlog =>
              LET e == qlog'[Len(qlog')] IN
              /\ e.op = "enqueue" =>
                    e.result = "QueueFullError" /\ queue'.items = queue.items
              /\ e.op = "dequeue" =>
                    IF queue.items # <<>>
                    THEN /\ e.result = "ok"
                         /\ e.item = Head(queue.items)
                         /\ queue'.items = Tail(queue.items)
                    ELSE e.result = "QueueEmptyError" /\ queue'.items = queue.items
      ]_vars

\* an item was accepted, the queue was closed, an enqueue was refused
\* although there was room, the item was dequeued, the next dequeue failed
C7_Witness ==
    \E i, c, n, j, m \in DOMAIN qlog :
        /\ i < c /\ c < n /\ n < j /\ j < m
        /\ IsAccepted(qlog[i]) /\ qlog[c].op = "close"
        /\ qlog[n].op = "enqueue" /\ qlog[n].result = "QueueFullError"
        /\ IsDelivered(qlog[j]) /\ qlog[j].item = qlog[i].item
        /\ qlog[m].op = "dequeue" /\ qlog[m].result = "QueueEmptyError"

----------------------------------------------------------------------------
(* Properties of the claim cooldown *)

\* C11: a /claim whose can_claim reads the marker while it is live (set less
\* than 86400 seconds ago) answers "already claimed" and adds no credits,
\* and the marker is there exactly until 86400 seconds after it was set.
C11_NoClaimDuringCooldown ==
    /\ \A p \in Procs :
          /\ (call[p].pc = "done" /\ call[p].op = "can_claim"
                 /\ call[p].cause = "cooldown") => ~call[p].ret
          /\ claimcmd[p].live =>
                 /\ claimcmd[p].pc = "done"
                 /\ claimcmd[p].reply = "already_claimed"
                 /\ ~claimcmd[p].granted
    /\ \A u \in Users :
          /\ last_claim[u] > 0 <=> MarkerLive(u)
          /\ MarkerLive(u) => last_claim[u] = LAST_CLAIM_EX - since[u]

\* one /claim has granted the credits and set the marker, and a later one,
\* the marker in its last second, is refused
C11_Witness ==
    \E p, q \in Procs :
        /\ claimcmd[p].pc = "done" /\ claimcmd[p].reply = "claimed"
        /\ claimcmd[p].granted
        /\ claimcmd[q].pc = "done" /\ claimcmd[q].live
        /\ last_claim[claimcmd[q].user] = 1

\* C12: can_claim (the store answering) returns True when the user has no
\* marker, never set or set 86400 seconds ago or more, and returns False
\* with a remaining time in 1..86400 when the marker was set less than 86400
\* seconds ago.
C12_CanClaimFollowsTheMarker ==
    \A p \in Procs :
        (call[p].pc = "done" /\ call[p].op = "can_claim" /\ call[p].cause # "error") =>
            IF call[p].cause = "cooldown"
            THEN ~call[p].ret /\ call[p].value \in 1..LAST_CLAIM_EX
            ELSE call[p].ret /\ call[p].value = 0

\* a can_claim made during the cooldown returned False and, 86400 seconds
\* after set_last_claim, another one returns True
C12_Witness ==
    \E p, q \in Procs :
        /\ call[p].pc = "done" /\ call[p].op = "can_claim"
        /\ call[p].cause = "cooldown" /\ ~call[p].ret
        /\ call[q].pc = "done" /\ call[q].op = "can_claim"
        /\ call[q].cause = "none" /\ call[q].ret
        /\ since[call[q].user] >= LAST_CLAIM_EX

\* C13: every set_last_claim that goes through leaves the marker with
\* exactly 86400 seconds to live, whatever it had left before.
C13_SetLastClaimResets ==
    [][\A p \in Procs :
          (/\ call[p].op = "set_last_claim" /\ call[p].pc = "op"
           /\ call'[p].pc = "done" /\ call'[p].ret)
          => /\ last_claim'[call[p].user] = LAST_CLAIM_EX
             /\ since'[call[p].user] = 0]_vars

\* set_last_claim was called on a marker that had between 1 and 86399
\* seconds left
C13_Witness ==
    \E u \in Users :
        /\ renewed[u] \in 1..(LAST_CLAIM_EX - 1)
        /\ last_claim[u] = LAST_CLAIM_EX
        /\ since[u] = 0

----------------------------------------------------------------------------
(* Properties of calls made in sequence *)

\* C14: when add_credit(u, x) went through and the next call, with nobody
\* else writing, is deduct_credit(u, x) and the store answers it, the
\* deduction returns True and the balance is what it was before the add.
C14_AddThenDeductRoundTrip ==
    \A i \in 1..(Len(trace) - 1) :
        (/\ trace[i].op = "add_credit" /\ trace[i].ret
         /\ trace[i + 1].op = "deduct_credit" /\ trace[i + 1].returned
         /\ trace[i + 1].user = trace[i].user
         /\ trace[i + 1].amount = trace[i].amount
         /\ trace[i + 1].cause # "error")
        => /\ trace[i + 1].ret
           /\ IntOf(trace[i + 1].after) = IntOf(trace[i].before)

\* a round trip on a user who had credits before
C14_Witness ==
    /\ Len(trace) >= 2
    /\ trace[1].op = "add_credit" /\ trace[1].ret
    /\ IntOf(trace[1].before) > 0
    /\ trace[2].op = "deduct_credit" /\ trace[2].returned /\ trace[2].ret
    /\ trace[2].amount = trace[1].amount

\* C15: get_credits (the store answering) returns the stored balance, 0 for
\* a key never written, and leaves the key as it is; right after
\* add_credit(u, 5) on a user who had no key it returns 5.
C15_GetCreditsReadsTheBalance ==
    \A i \in 1..Len(trace) :
        (trace[i].op = "get_credits" /\ trace[i].returned /\ trace[i].cause # "error")
        => /\ trace[i].value = IntOf(trace[i].before)
           /\ trace[i].after = trace[i].before
           /\ trace[i].before = NoKey => trace[i].value = 0
           /\ (/\ i > 1
               /\ trace[i - 1].op = "add_credit" /\ trace[i - 1].ret
               /\ trace[i - 1].amount = DAILY_CREDITS
               /\ trace[i - 1].before = NoKey)
              => trace[i].value = 5

\* add_credit(u, 5) on a fresh user, then get_credits(u)
C15_Witness ==
    /\ Len(trace) >= 2
    /\ trace[1].op = "add_credit" /\ trace[1].ret /\ trace[1].amount = DAILY_CREDITS
    /\ trace[1].before = NoKey
    /\ trace[2].op = "get_credits" /\ trace[2].returned /\ trace[2].cause # "error"

----------------------------------------------------------------------------
(* Properties of the ledger when the store fails *)

\* C16: an operation reports a store failure only after MAX_RETRIES of its
\* commands raised redis.RedisError; fewer failures are retried.
C16_FailsOnlyAfterLastAttempt ==
    \A p \in Procs :
        (call[p].pc = "done" /\ call[p].cause = "error")
        => call[p].failed = MAX_RETRIES

\* what the caller gets from operation o when the store answers: get_credits
\* an int >= 0 here, add_credit True, deduct_credit True or False
NormalResults(o) ==
    CASE o = "get_credits" -> [ret : {FALSE}, value : Nat]
      [] o = "add_credit" -> [ret : {TRUE}, value : {0}]
      [] o = "deduct_credit" -> [ret : BOOLEAN, value : {0}]
      [] OTHER -> {}

\* C17: what get_credits, add_credit and deduct_credit return after the
\* store failed is nothing they return when the store answers.
C17_StoreFailureIsTold ==
    \A p \in Procs :
        (/\ call[p].pc = "done" /\ call[p].cause = "error"
         /\ call[p].op \in {"get_credits", "add_credit", "deduct_credit"})
        => [ret |-> call[p].ret, value |-> call[p].value] \notin NormalResults(call[p].op)

----------------------------------------------------------------------------
(* Properties of the consumer loops *)

\* C18: an item whose handler raised is not put back on the queue, the
\* loop is not stopped by it, and every item that is buffered after a
\* handler has raised is handed to the handler later.
C18_HandlerFailureDoesNotStopTheLoop ==
    /\ [](\A i \in loop.raised : i \notin Range(queue.items))
    /\ [](loop.last = "raised" => loop.pc # "stopped")
    /\ \A i \in 1..MaxItems :
          (loop.raised # {} /\ i \in Range(queue.items)) ~> (i \in Range(handled))

\* the handler raised on one item and was invoked with a later one
C18_Witness ==
    \E i \in loop.raised : \E k \in DOMAIN handled : handled[k] > i

\* C19: while the loop is not cancelled and handlers terminate, every item
\* that enqueue accepted is eventually passed to the handler.
C19_AcceptedItemsAreHandled ==
    \A i \in 1..MaxItems :
        (i <= queue.total_enqueued) ~> (i \in Range(handled))

\* every item the producers offered was accepted and handled, some handler
\* having failed on the way
C19_Witness ==
    /\ queue.total_enqueued = MaxItems
    /\ Len(handled) = MaxItems
    /\ loop.raised # {}
    /\ loop.pc = "waiting"

\* C20: every item removed from the queue has been passed to the handler, or
\* is in the hands of a loop that is about to pass it: cancellation never
\* comes in between.
C20_CancelKeepsDequeuedItem ==
    \A i \in 1..queue.total_enqueued :
        i \notin Range(queue.items) =>
            \/ i \in Range(handled)
            \/ loop.pc = "dequeued" /\ loop.item = i

\* the loop was cancelled while its handler was working on an item and has
\* stopped with items still buffered
C20_Witness ==
    /\ loop.cancelled /\ loop.last = "cancelled_in_handler"
    /\ loop.pc = "stopped"
    /\ queue.items # <<>>

----------------------------------------------------------------------------
(* Properties of shutdown *)

\* C21: cog_unload lets the cycle that is in flight run to completion: no
\* handler invocation is cut short by the cancellation.
C21_ShutdownLetsTheCycleFinish ==
    loop.cancelled => loop.last # "cancelled_in_handler"

----------------------------------------------------------------------------
(* Properties of the sweep *)

\* C22: the sweep deletes an entry only when it is more than 15 minutes old
\* at that moment, and an entry that is still cached was at most 15 minutes
\* old when the sweep last ran.
C22_SweepRemovesExactlyTheOld ==
    /\ \A r \in removed :
          r.by = "sweep" => r.at - r.timestamp > SWEEP_MAX_AGE
    /\ \A e \in interaction_cache :
          sweeper.last >= 0 => sweeper.last - e.timestamp <= SWEEP_MAX_AGE

\* one sweep has deleted an entry that was 15 minutes and a second old and
\* has kept one that was exactly 15 minutes old
C22_Witness ==
    /\ \E r \in removed : r.by = "sweep" /\ r.at - r.timestamp = SWEEP_MAX_AGE + 1
    /\ \E e \in interaction_cache : sweeper.last - e.timestamp = SWEEP_MAX_AGE

----------------------------------------------------------------------------
(* Properties of the consumers *)

\* C23: a _send_followup that found the entry and has returned either sent
\* the message through one of the tiers or tried all three of them, in
\* order, and logged that it was unable to send.
C23_EveryFailureFallsThrough ==
    (followup.pc = "done" /\ followup.cached) =>
        \/ followup.via # "none"
        \/ /\ followup.tried = <<1, 2, 3>>
           /\ followup.logged = "unable"

\* request id was accepted by the image-generation queue
RequestAccepted(id) ==
    \E p \in DreamTasks : cmd[p].id = id /\ cmd[p].pc = "done" /\ cmd[p].reply = "queued"

\* a collaborator failed on request id, or the sweep took its entry
Faulty(id) ==
    \/ id \in faults
    \/ \E r \in removed : r.id = id /\ r.by = "sweep"

\* the image embed of request id went out through the original interaction
\* and its handler deleted the entry
RequestCompleted(id) ==
    /\ \E i \in 1..Len(outbox) :
          outbox[i] = [id |-> id, kind |-> "image_embed", via |-> "interaction"]
    /\ \E r \in removed : r.id = id /\ r.by = "consumer"
    /\ \A e \in interaction_cache : e.id # id

\* C25: a user without credits claims (0 to 5) and invokes /dream (5 to 4);
\* the request gets an entry and a work item, and unless a collaborator
\* fails or the sweep takes the entry, the image is delivered through the
\* original interaction and the entry is deleted.
C25_EndToEnd ==
    /\ [][\A p \in DreamTasks :
            (cmd[p].pc = "enqueue" /\ cmd'[p].pc = "done" /\ cmd[p].before = DAILY_CREDITS) =>
                /\ cmd'[p].reply = "queued"
                /\ Balance(cmd[p].user) = DAILY_CREDITS - 1
                /\ \E e \in interaction_cache' : e.id = cmd[p].id
                /\ image_generation_queue'.items =
                       Append(image_generation_queue.items, cmd[p].id)]_vars
    /\ \A id \in 1..MaxJobs :
          RequestAccepted(id) ~> (Faulty(id) \/ RequestCompleted(id))

\* the user had nothing, claimed 5 credits and has 4 left; the request went
\* through both queues without a failure
C25_Witness ==
    /\ initial[Dreamer] = 0
    /\ Balance(Dreamer) = DAILY_CREDITS - 1
    /\ RequestCompleted(1)
    /\ ~Faulty(1)
    /\ imgw.pc = "waiting" /\ prodw.pc = "waiting"
    /\ product_creation_queue.total_dequeued = 1

\* a step of a consumer loop, of the delivery or of a handler
ConsumerStep ==
    \/ imgw' # imgw
    \/ prodw' # prodw
    \/ followup' # followup
    \/ product_creation_queue' # product_creation_queue
    \/ image_generation_queue'.total_dequeued # image_generation_queue.total_dequeued

\* C27: no step of a consumer loop, of a handler or of the delivery changes
\* a balance: a request that fails after its credit was spent gets nothing
\* back.
C27_ConsumersLeaveBalancesAlone ==
    [][ConsumerStep => credits' = credits]_vars

\* the request was paid for (5 to 4), its handler failed and has returned
C27_Witness ==
    /\ 1 \in faults
    /\ imgw.pc = "waiting" /\ prodw.pc = "waiting" /\ followup.pc = "idle"
    /\ image_generation_queue.total_dequeued = 1
    /\ Balance(Dreamer) = DAILY_CREDITS - 1

\* C30: no lock is acquired while another lock is held.
C30_NoLockHeldAcrossAnother ==
    nested = {}

----------------------------------------------------------------------------
(* Properties of the ledger under contention *)

\* C28: every deduct_credit call that has started returns, whatever the
\* other writers of the balance do.
C28_DeductTerminates ==
    (call[Deductor].op = "deduct_credit" /\ call[Deductor].pc \in {"watch", "get", "exec"})
        ~> (call[Deductor].pc = "done")

----------------------------------------------------------------------------
(* Properties of the read operations of InMemoryQueue *)

\* the call that a step has just logged
LastCall == qlog'[Len(qlog')]

\* C29: peek, get_statistics, size, an enqueue refused with QueueFullError
\* and a dequeue refused with QueueEmptyError leave the items, their order,
\* the two totals and the closed flag as they were; peek returns the item
\* the next dequeue would return, or nothing when no item is buffered.
C29_ReadsAndRefusalsChangeNothing ==
    [][Len(qlog') = Len(qlog) + 1 =>
          /\ (\/ LastCall.op \in {"peek", "get_statistics", "size"}
              \/ LastCall.result \in {"QueueFullError", "QueueEmptyError"})
                => queue' = queue
          /\ LastCall.op = "peek" =>
                LastCall.item = IF DequeueAvailable(queue) THEN DequeueItem(queue) ELSE 0]_vars

\* an enqueue was refused, and peek has returned the oldest of two items
C29_Witness ==
    /\ Len(queue.items) >= 2
    /\ \E i \in DOMAIN qlog : qlog[i].result = "QueueFullError"
    /\ qlog # <<>>
    /\ qlog[Len(qlog)].op = "peek"
    /\ qlog[Len(qlog)].item = queue.items[1]

----------------------------------------------------------------------------
(* Properties of the chaining of the two queues *)

\* the handler of the image consumer has the image and is past the delivery
ChainStep == imgw.pc = "delivering" /\ imgw'.pc # "delivering"

\* C31: when the handler has an image URL and the entry of the request is
\* cached, exactly one product item with the same interaction id is
\* enqueued; when the image failed or the entry is gone, none is.
C31_ChainsExactlyOneItem ==
    [][/\ (ChainStep /\ \E e \in interaction_cache : e.id = imgw.id) =>
             product_creation_queue'.items = Append(product_creation_queue.items, imgw.id)
       /\ (ChainStep /\ ~\E e \in interaction_cache : e.id = imgw.id) =>
             product_creation_queue' = product_creation_queue
       /\ (imgw.pc = "generating" /\ imgw'.pc = "failing") =>
             product_creation_queue' = product_creation_queue
       /\ (imgw.pc = "failing") =>
             product_creation_queue'.items = product_creation_queue.items]_vars

----------------------------------------------------------------------------
(* Properties of the delivery after the sweep *)

\* C32: a _send_followup that finds no entry for the request (the sweep has
\* taken it) tries no tier, sends nothing, logs that it was unable to send
\* and returns; the consumer loop then gets back to waiting for an item.
C32_SweptRequestIsUndeliverable ==
    /\ [](followup.pc = "done" /\ ~followup.cached =>
             /\ followup.tried = <<>>
             /\ followup.via = "none"
             /\ followup.logged = "unable"
             /\ \A i \in 1..Len(outbox) : outbox[i].id # followup.id)
    /\ (followup.pc = "done" /\ ~followup.cached) ~> (imgw.pc = "waiting")

\* the sweep took the entry of a request while its image was generated, and
\* the delivery of the result has returned
C32_Witness ==
    /\ followup.pc = "done" /\ ~followup.cached
    /\ followup.kind = "image_embed"
    /\ imgw.pc = "delivering" /\ imgw.id = followup.id
    /\ \E r \in removed : r.id = followup.id /\ r.by = "sweep"

----------------------------------------------------------------------------
(* Properties of InMemoryQueue.process_queue *)

\* C33: process_queue does not end while the queue is open; once the queue
\* is closed it ends, and it ends only with an empty queue, after every
\* accepted item was passed to the handler once, in the order of acceptance,
\* whether or not handlers raised.
C33_ProcessQueueDrainsThenEnds ==
    /\ [](consumer.pc = "stopped" =>
             /\ queue.closed
             /\ queue.items = <<>>
             /\ Delivered = Accepted)
    /\ [](consumer.pc = "handling" => consumer.item = Delivered[Len(Delivered)])
    /\ queue.closed ~> (consumer.pc = "stopped")

\* process_queue has ended after two items, the handler of the last raised
C33_Witness ==
    /\ consumer.pc = "stopped"
    /\ Len(Delivered) >= 2
    /\ consumer.last = "raised"

----------------------------------------------------------------------------
(* Properties of concurrent and failing /claim invocations *)

\* C34: whatever the interleaving of the /claim invocations of one user,
\* the claims made before any time has passed raise the balance by at most
\* the 5 daily credits.
C34_OneGrantPerWindow ==
    ticks = 0 => Balance(Claimer) <= initial[Claimer] + DAILY_CREDITS

\* C35: when a /claim has made both of its writes, the credits were added
\* if and only if the marker was set.
C35_CreditsAndCooldownTogether ==
    \A p \in ClaimTasks :
        (claimcmd[p].pc = "set" /\ call[p].pc = "done") =>
            (claimcmd[p].granted <=> call[p].ret)

----------------------------------------------------------------------------
(* Properties of concurrent /dream invocations *)

\* the credits taken from the dreamer so far
Deducted == initial[Dreamer] - Balance(Dreamer)

\* the invocations whose deduction went through and whose item is not in yet
Paid == {p \in Clients : cmd[p].pc \in {"remaining", "enqueue"}}

\* C36: every item the image-generation queue has accepted, and every
\* invocation about to enqueue, stands for one credit deducted from the
\* user: with a balance of B no more than B requests get queued.
C36_QueuedRequestsArePaidFor ==
    /\ image_generation_queue.total_enqueued + Cardinality(Paid) <= Deducted
    /\ image_generation_queue.total_enqueued <= initial[Dreamer]
    /\ Balance(Dreamer) >= 0

\* a user with one credit invoked /dream twice at once: both read a balance
\* of 1, one request was queued, the deduction of the other failed
C36_Witness ==
    /\ initial[Dreamer] = 1
    /\ \E p, q \in Clients :
          /\ cmd[p].pc = "done" /\ cmd[p].reply = "queued"
          /\ cmd[q].pc = "done" /\ cmd[q].reply = "failed_to_deduct"
          /\ cmd[q].before = 1

----------------------------------------------------------------------------
(* Properties of the counters of InMemoryQueue *)

\* C37: in every state the number of buffered items is total_enqueued minus
\* total_dequeued.
C37_SizeIsEnqueuedMinusDequeued ==
    Len(queue.items) = queue.total_enqueued - queue.total_dequeued

----------------------------------------------------------------------------
(* Properties of the registry under the sweep *)

----------------------------------------------------------------------------
(* Properties of the locks *)

Holds(t) == {l \in Locks : owner[l] = t}

\* task t waits for a lock that task u holds
WaitsFor(t, u) ==
    /\ Pending(t, "acquire")
    /\ owner[Head(run[t].todo).lock] = u

\* C39: the tasks of the cog never deadlock.  No task requests the registry
\* lock while it holds a queue lock, no set of tasks waits for one another,
\* a run that is over holds no lock, whether or not it raised, and every
\* run that has started comes to its end.
C39_NoDeadlock ==
    /\ [](\A t \in LockTasks :
            /\ (Pending(t, "acquire") /\ Head(run[t].todo).lock = RegistryLock)
                   => Holds(t) \cap QueueLocks = {}
            /\ run[t].todo = <<>> => Holds(t) = {})
    /\ [](~\E S \in (SUBSET LockTasks) \ {{}} :
              \A t \in S : \E u \in S : WaitsFor(t, u))
    /\ \A t \in LockTasks : (run[t].todo # <<>>) ~> (run[t].todo = <<>>)

\* the chained enqueue raised under both locks while the product consumer
\* was waiting for the lock of its queue; the handler of the image consumer
\* is over and holds nothing
C39_Witness ==
    /\ run["process_image_generation_queue"].raised
    /\ run["process_image_generation_queue"].todo = <<>>
    /\ Holds("process_image_generation_queue") = {}
    /\ owner[RegistryLock] = "process_product_creation_queue"

----------------------------------------------------------------------------
(* Properties of transfer_credits as a whole *)

\* the two balances a transfer from f to t is about, added up
PairTotal(f, t) == IF f = t THEN Balance(f) ELSE Balance(f) + Balance(t)

\* C40: no step of a transfer_credits call changes the sum of the sender's
\* and the receiver's balance, whatever the call returns; a transfer from a
\* user to the same user leaves the balance as it was.
C40_TransferConserves ==
    [][\A p \in Clients :
          (call[p].op = "transfer_credits" /\ call'[p] # call[p]) =>
              /\ PairTotal(call[p].user, call[p].to)' = PairTotal(call[p].user, call[p].to)
              /\ call'[p].pc = "done" /\ ~call'[p].ret => credits' = credits
              /\ call[p].user = call[p].to => Balance(call[p].user)' = Balance(call[p].user)]_vars

\* one transfer between two users and one from a user to the same user have
\* returned True, and the balances have moved
C40_Witness ==
    \E p, q \in Clients :
        /\ call[p].op = "transfer_credits" /\ call[p].pc = "done" /\ call[p].ret
        /\ call[p].user # call[p].to
        /\ call[q].op = "transfer_credits" /\ call[q].pc = "done" /\ call[q].ret
        /\ call[q].user = call[q].to
        /\ Balance(call[p].to) # initial[call[p].to]

====
